---- MODULE Spec2Model ----
(***************************************************************************)
(* KK_exec: the bounded execution loop (core/execution_engine.py), the     *)
(* execution record and the service that drives the loop                   *)
(* (services/execution_service.py, models/execution.py), the MCP gateway   *)
(* (services/mcp_gateway.py), the transports (mcp/transports.py) and the   *)
(* server registry (mcp/server_registry.py).                               *)
(*                                                                         *)
(* The state machines share the variable list; each specification moves   *)
(* one of them and leaves the variables of the others at their initial     *)
(* values:                                                                 *)
(*   Spec           - one execution: create_and_start, execute, the        *)
(*                    engine's generator, and concurrent cancel requests   *)
(*   SpecTimed      - the same, with the run's timeout elapsing            *)
(*   SpecStream     - the same, with a stream request for the same id      *)
(*   SpecLive       - SpecStream under the event loop's fairness           *)
(*   SpecGateway    - MCPGateway.connection scopes over the registry       *)
(*   SpecConnection - connection scopes with user credentials             *)
(*   SpecTransport  - connect / disconnect on the three transport classes  *)
(*   SpecCallTool   - MCPGateway.call_tool                                 *)
(*   SpecPipe       - _send_request on one subprocess connection           *)
(*   SpecInjector   - CredentialInjector.prepare                           *)
(*   SpecRegistry   - registry and gateway availability queries            *)
(*   SpecTools      - _build_tools_from_nodes and the tools it builds      *)
(*   SpecLibrary    - NodeLibrary.register / unregister and its indexes    *)
(***************************************************************************)
EXTENDS Integers, Sequences, FiniteSets, TLC

VARIABLES
    \* ---- execution record and service (execution_service.py) ----
    status,         \* Execution.status as stored in the execution table
    sess_status,    \* Execution.status of the object held by the running session
    cas_pc,         \* position inside ExecutionService.create_and_start
    svc_pc,         \* position inside the ExecutionService.execute generator
    svc_events,     \* events ExecutionService.execute has yielded to its caller
    cancel_pc,      \* position inside one ExecutionService.cancel request
    cancels,        \* number of cancel requests issued so far
    \* ---- engine generator (execution_engine.py) ----
    engine_pc,      \* position inside WorkflowExecutionEngine.execute
    max_steps,      \* self.max_steps
    has_tools,      \* whether the tools list is non-empty (shape of the graph)
    g,              \* what the compiled graph's astream produces next
    turns,          \* outcomes of the model turns so far, oldest first
    step_count,     \* local step_count
    final_state,    \* whether final_state has been captured from a values chunk
    engine_events,  \* events WorkflowExecutionEngine.execute has yielded
    inflight,       \* event yielded by the engine, not yet handled by the service
    engine_exc,     \* error_code of the ExecutionError the engine raised, if any
    \* ---- gateway (mcp_gateway.py) and registry (server_registry.py) ----
    registry,       \* MCPServerRegistry.servers: server id -> config, absent ids map to NoConfig
    conn_pc,        \* position inside one `async with gateway.connection(...)` scope
    conn_server,    \* the server_id argument of the scope
    conn_cfg,       \* the config the scope resolved
    proc,           \* the subprocess of the scope: "none", "running", "exited", "killed"
    proc_log,       \* what the scope did to its subprocess, in order
    cleanup_runs,   \* how many times the finally block of _stdio_connection ran
    client,         \* the sse_client of the scope: "none", "open", "closed"
    pending_exc,    \* exception travelling out of the scope, before connection() handles it
    conn_raised,    \* exception type the caller of connection() received, "none" if none
    user_credentials, \* the user_credentials argument of the scope
    conn_auth,      \* what the scope put into the subprocess env / the request headers
    conn_yielded,   \* whether the scope yielded its MCPServerConnection to the caller
    \* ---- transports (transports.py) ----
    tr_kind,        \* class of the transport object
    tr_process,     \* StdioTransport._process: "none" (None), "running", "exited"
    tr_client,      \* _client of the HTTP/SSE transports: "none" (None), "open", "closed"
    tr_connected,   \* _connected
    tr_pc,          \* "idle", or "waiting" inside disconnect's await self._process.wait()
    tr_log,         \* calls made on the transport and what they did to the process
    tr_raised,      \* exception raised by the latest call, "none" if it returned
    tr_calls,       \* number of calls made on the transport
    \* ---- registry queries (server_registry.py) ----
    reg_call,       \* the latest get / list_available call since the catalog last changed
    \* ---- MCPGateway.call_tool (mcp_gateway.py) ----
    ct_server,      \* connection.server_id
    ct_kind,        \* what the connection carries: "subprocess", "session" or "neither"
    ct_tool,        \* the tool_name argument
    ct_outcome,     \* what the underlying call meets
    ct_pc,          \* "ready" before the call, "returned" after it
    ct_raised,      \* the exception call_tool raised: its type and its message
    \* ---- one _SubprocessMCPConnection and its subprocess (mcp_gateway.py) ----
    request_id,     \* self._request_id
    lock,           \* holder of self._lock, "free" when nobody holds it
    rq_pc,          \* per caller: position inside _send_request
    rq_id,          \* per caller: the id of the request it wrote
    rq_ret,         \* per caller: what its latest _send_request returned or raised
    stdin,          \* ids of the requests written to the subprocess, in order
    stdout,         \* response lines the subprocess wrote that nobody has read yet
    unanswered,     \* ids of written requests the subprocess has not answered
    unsolicited,    \* number of lines the subprocess wrote on its own
    \* ---- CredentialInjector.prepare (credential_injector.py) ----
    inj_config_type, \* server_config.credential_type, "none" for None
    inj_credential, \* the credential argument
    inj_pc,         \* "ready" before the call, "returned" after it
    inj_ret,        \* what prepare returned or raised
    \* ---- _build_tools_from_nodes and the tools it builds (execution_engine.py) ----
    tl_nodes,       \* node types of the workflow's node instances, in graph order
    tl_credentials, \* the credentials passed to the execution
    tl_pc,          \* "start", "built" once the tools exist
    tl_tools,       \* names of the tools built, in order
    tl_build_raised, \* exception _build_tools_from_nodes raised, "none" if none
    tl_call,        \* the latest tool call and how it ended
    \* ---- one NodeLibrary (node_library.py) ----
    lib_nodes,          \* _nodes: name -> definition, NoNode when absent
    lib_by_category,    \* _by_category: category -> list of names
    lib_by_mcp_server,  \* _by_mcp_server: server id -> list of names
    lib_by_credential,  \* _by_credential: credential type -> list of names
    lib_call,           \* the latest register / unregister call and what it raised
    \* ---- wall clock of the run, and a second execute call (executions.py) ----
    overdue,        \* the configured timeout has elapsed while the engine runs
    st_pc,          \* position of the stream endpoint's execute call
    st_sess         \* status held by the session of that call

execVars == <<status, sess_status, cas_pc, svc_pc, svc_events, cancel_pc, cancels,
              engine_pc, max_steps, has_tools, g, turns, step_count,
              final_state, engine_events, inflight, engine_exc>>

\* ---- MCPGateway.connection scope (mcp_gateway.py, server_registry.py) ----
gwVars == <<registry, conn_pc, conn_server, conn_cfg, proc, proc_log, cleanup_runs,
            client, pending_exc, conn_raised, user_credentials, conn_auth,
            conn_yielded>>

\* ---- one transport object (transports.py) ----
trVars == <<tr_kind, tr_process, tr_client, tr_connected, tr_pc, tr_log, tr_raised,
            tr_calls>>

\* ---- MCPServerRegistry.get / list_available calls (server_registry.py) ----
queryVars == <<reg_call>>

\* ---- one MCPGateway.call_tool call (mcp_gateway.py) ----
callToolVars == <<ct_server, ct_kind, ct_tool, ct_outcome, ct_pc, ct_raised>>

\* ---- one _SubprocessMCPConnection (mcp_gateway.py) ----
pipeVars == <<request_id, lock, rq_pc, rq_id, rq_ret, stdin, stdout, unanswered,
              unsolicited>>

\* ---- one CredentialInjector.prepare call (credential_injector.py) ----
injVars == <<inj_config_type, inj_credential, inj_pc, inj_ret>>

\* ---- one _build_tools_from_nodes call and its tools (execution_engine.py) ----
toolVars == <<tl_nodes, tl_credentials, tl_pc, tl_tools, tl_build_raised, tl_call>>

\* ---- one NodeLibrary (node_library.py) ----
libVars == <<lib_nodes, lib_by_category, lib_by_mcp_server, lib_by_credential, lib_call>>

\* ---- the run's timeout and the stream endpoint's execute call ----
runVars == <<overdue, st_pc, st_sess>>

vars == <<execVars, gwVars, trVars, queryVars, callToolVars, pipeVars, injVars,
          toolVars, libVars, runVars>>

\* what the actions of one component leave alone
nonExecVars == <<gwVars, trVars, queryVars, callToolVars, pipeVars, injVars, toolVars,
                 libVars, runVars>>
nonGatewayVars == <<execVars, trVars, callToolVars, pipeVars, injVars, toolVars,
                    libVars, runVars>>
nonTransportVars == <<execVars, gwVars, queryVars, callToolVars, pipeVars, injVars,
                      toolVars, libVars, runVars>>
nonLibraryVars == <<execVars, gwVars, trVars, queryVars, callToolVars, pipeVars, injVars,
                    toolVars, runVars>>

\* ------------------------------------------------------------------ bounds
\* largest max_steps the engine is constructed with
MaxStepsBound == 5
\* number of cancel requests issued against the execution
MaxCancels == 2
\* number of connect / disconnect calls made on one transport object
MaxTransportCalls == 4
\* number of requests written on one subprocess connection
MaxRequests == 3
\* number of lines the subprocess writes without having been asked
MaxUnsolicited == 1
\* number of node instances in a workflow
MaxNodes == 2

\* Python's None for an optional integer / an absent event
None == -1
NoEvent == [type |-> "none", step_number |-> None, steps_completed |-> None]

\* ExecutionStatus (models/execution.py)
TerminalStatuses == {"completed", "failed", "cancelled", "timeout"}
ActiveStatuses == {"pending", "running"}

\* ExecutionEvent(type=..., step_number=..., data={"steps_completed": ...})
ExecutionEvent(t, n, sc) == [type |-> t, step_number |-> n, steps_completed |-> sc]

\* ------------------------------------------------------------------ engine
\* The compiled graph (_build_state_graph) streamed with
\* stream_mode = ["updates", "values"]: LangGraph first emits the ("values", ...)
\* chunk of the input state, then for every node that runs an ("updates", ...)
\* chunk followed by the ("values", ...) chunk of the state after it.
\*   g = "input"         the values chunk of the input state is next
\*   g = "agent"         the agent node runs next and emits its updates chunk
\*   g = "agent_values"  the values chunk after the agent node is next
\*   g = "tools"         the tools node runs next and emits its updates chunk
\*   g = "tools_values"  the values chunk after the tools node is next
\*   g = "end"           the stream is exhausted
ChunkMode(node) == IF node \in {"input", "agent_values", "tools_values"}
                   THEN "values" ELSE "updates"

\* should_continue: "tools" when the last AI message carries tool calls; without
\* tools the graph is START -> agent -> END
should_continue(tools, turn) == IF tools /\ turn = "tool_calls" THEN "tools" ELSE "end"

\* the node order of the graph built by _build_state_graph
NextNode(node, tools, turn) ==
    CASE node = "input"        -> "agent"
      [] node = "agent"        -> "agent_values"
      [] node = "agent_values" -> should_continue(tools, turn)
      [] node = "tools"        -> "tools_values"
      [] node = "tools_values" -> "agent"
      [] OTHER                 -> "end"

\* if step_count > self.max_steps
StepBudgetExceeded(count, limit) == count > limit

\* the engine's generator runs only while its consumer is waiting for the next event
EngineResumed == svc_pc = "iter" /\ inflight = NoEvent

\* yield ExecutionEvent(...)
Yield(e) == /\ engine_events' = Append(engine_events, e)
            /\ inflight' = e

\* yield ExecutionEvent(type="start", ...)
EngineStart ==
    /\ EngineResumed
    /\ engine_pc = "init"
    /\ Yield(ExecutionEvent("start", None, None))
    /\ engine_pc' = "setup"
    /\ UNCHANGED <<status, sess_status, cas_pc, svc_pc, svc_events, cancel_pc, cancels,
                   max_steps, has_tools, g, turns, step_count, final_state, engine_exc>>
    /\ UNCHANGED nonExecVars

\* workflow.get_graph(), NodeInstance.from_dict, _build_tools_from_nodes,
\* _build_state_graph, compile: any of them may raise, which enters
\* the `except Exception` handler
EngineSetup ==
    /\ EngineResumed
    /\ engine_pc = "setup"
    /\ \E ok \in BOOLEAN :
         engine_pc' = IF ok THEN "stream" ELSE "handler"
    /\ UNCHANGED <<status, sess_status, cas_pc, svc_pc, svc_events, cancel_pc, cancels,
                   max_steps, has_tools, g, turns, step_count, final_state,
                   engine_events, inflight, engine_exc>>
    /\ UNCHANGED nonExecVars

\* a node raises inside compiled.astream (the model call of agent_node, or a
\* tool call of the ToolNode): the exception leaves the `async for` and enters
\* the `except Exception` handler
EngineNodeRaises ==
    /\ EngineResumed
    /\ engine_pc = "stream"
    /\ g \in {"agent", "tools"}
    /\ engine_pc' = "handler"
    /\ UNCHANGED <<status, sess_status, cas_pc, svc_pc, svc_events, cancel_pc, cancels,
                   max_steps, has_tools, g, turns, step_count, final_state,
                   engine_events, inflight, engine_exc>>
    /\ UNCHANGED nonExecVars

\* one iteration of `async for chunk in compiled.astream(...)`
EngineChunk ==
    /\ EngineResumed
    /\ engine_pc = "stream"
    /\ g # "end"
    /\ \E turn \in {"tool_calls", "final"} :
         LET ts == IF g = "agent" THEN Append(turns, turn) ELSE turns
             last == IF Len(ts) = 0 THEN "final" ELSE ts[Len(ts)]
         IN /\ turns' = ts
            /\ g' = NextNode(g, has_tools, last)
    /\ step_count' = step_count + 1
    /\ IF StepBudgetExceeded(step_count', max_steps)
       THEN \* raise ExecutionError(..., "MAX_STEPS_EXCEEDED"); except ExecutionError: raise
            /\ engine_pc' = "raised"
            /\ engine_exc' = "MAX_STEPS_EXCEEDED"
            /\ UNCHANGED <<final_state, engine_events, inflight>>
       ELSE /\ UNCHANGED <<engine_pc, engine_exc>>
            /\ IF ChunkMode(g) = "values"
               THEN /\ final_state' = TRUE
                    /\ UNCHANGED <<engine_events, inflight>>
               ELSE /\ Yield(ExecutionEvent("step", step_count', None))
                    /\ UNCHANGED final_state
    /\ UNCHANGED <<status, sess_status, cas_pc, svc_pc, svc_events, cancel_pc, cancels,
                   max_steps, has_tools>>
    /\ UNCHANGED nonExecVars

\* the stream is exhausted: final_state was captured from the last values chunk;
\* _extract_output, then yield ExecutionEvent(type="complete", ...)
EngineComplete ==
    /\ EngineResumed
    /\ engine_pc = "stream"
    /\ g = "end"
    /\ final_state
    /\ Yield(ExecutionEvent("complete", step_count, step_count))
    /\ engine_pc' = "complete_yielded"
    /\ UNCHANGED <<status, sess_status, cas_pc, svc_pc, svc_events, cancel_pc, cancels,
                   max_steps, has_tools, g, turns, step_count, final_state, engine_exc>>
    /\ UNCHANGED nonExecVars

\* resumed after the complete event: the generator returns
EngineReturn ==
    /\ EngineResumed
    /\ engine_pc = "complete_yielded"
    /\ engine_pc' = "done"
    /\ UNCHANGED <<status, sess_status, cas_pc, svc_pc, svc_events, cancel_pc, cancels,
                   max_steps, has_tools, g, turns, step_count, final_state,
                   engine_events, inflight, engine_exc>>
    /\ UNCHANGED nonExecVars

\* except Exception as e: yield ExecutionEvent(type="error", ...)
EngineYieldError ==
    /\ EngineResumed
    /\ engine_pc = "handler"
    /\ Yield(ExecutionEvent("error", step_count, None))
    /\ engine_pc' = "error_yielded"
    /\ UNCHANGED <<status, sess_status, cas_pc, svc_pc, svc_events, cancel_pc, cancels,
                   max_steps, has_tools, g, turns, step_count, final_state, engine_exc>>
    /\ UNCHANGED nonExecVars

\* resumed after the error event: raise ExecutionError(str(e), "EXECUTION_FAILED")
EngineRaiseWrapped ==
    /\ EngineResumed
    /\ engine_pc = "error_yielded"
    /\ engine_pc' = "raised"
    /\ engine_exc' = "EXECUTION_FAILED"
    /\ UNCHANGED <<status, sess_status, cas_pc, svc_pc, svc_events, cancel_pc, cancels,
                   max_steps, has_tools, g, turns, step_count, final_state,
                   engine_events, inflight>>
    /\ UNCHANGED nonExecVars

\* ------------------------------------------------------------------ service
\* session.commit() after an assignment to execution.status: the UPDATE carries
\* the status column only when the assignment changed the attribute held by the
\* session (the session is created with expire_on_commit=False, api/deps.py)
Commit(held, new, stored) == IF held # new THEN new ELSE stored

\* the status an event makes ExecutionService.execute assign, if any:
\* "complete" -> mark_completed, "error" -> mark_failed, "step" leaves it alone
StatusAfterEvent(e, held) ==
    CASE e.type = "complete" -> "completed"
      [] e.type = "error"    -> "failed"
      [] OTHER               -> held

\* ExecutionService.create: Execution(status=PENDING), add, commit
Create ==
    /\ cas_pc = "start"
    /\ status' = "pending"
    /\ sess_status' = "pending"
    /\ cas_pc' = "created"
    /\ UNCHANGED <<svc_pc, svc_events, cancel_pc, cancels, engine_pc, max_steps,
                   has_tools, g, turns, step_count, final_state, engine_events,
                   inflight, engine_exc>>
    /\ UNCHANGED nonExecVars

\* create_and_start: await self._update_status(execution.id, RUNNING)
UpdateStatusRunning ==
    /\ cas_pc = "created"
    /\ status' = Commit(sess_status, "running", status)
    /\ sess_status' = "running"
    /\ cas_pc' = "run"
    /\ UNCHANGED <<svc_pc, svc_events, cancel_pc, cancels, engine_pc, max_steps,
                   has_tools, g, turns, step_count, final_state, engine_events,
                   inflight, engine_exc>>
    /\ UNCHANGED nonExecVars

\* execute: _get_and_verify returns the session's Execution object; the status
\* check raises ExecutionServiceError unless it is PENDING or RUNNING
SvcLoad ==
    /\ cas_pc = "run"
    /\ svc_pc = "init"
    /\ svc_pc' = IF sess_status \in ActiveStatuses THEN "loaded" ELSE "rejected"
    /\ UNCHANGED <<status, sess_status, cas_pc, svc_events, cancel_pc, cancels,
                   engine_pc, max_steps, has_tools, g, turns, step_count,
                   final_state, engine_events, inflight, engine_exc>>
    /\ UNCHANGED nonExecVars

\* execute: execution.mark_running(); await self._session.commit()
SvcMarkRunning ==
    /\ svc_pc = "loaded"
    /\ status' = Commit(sess_status, "running", status)
    /\ sess_status' = "running"
    /\ svc_pc' = "iter"
    /\ UNCHANGED <<cas_pc, svc_events, cancel_pc, cancels, engine_pc, max_steps,
                   has_tools, g, turns, step_count, final_state, engine_events,
                   inflight, engine_exc>>
    /\ UNCHANGED nonExecVars

\* execute: the body of `async for event in self._engine.execute(...)`:
\* update the record from the event, commit, yield event
SvcRelay ==
    /\ svc_pc = "iter"
    /\ inflight # NoEvent
    /\ status' = Commit(sess_status, StatusAfterEvent(inflight, sess_status), status)
    /\ sess_status' = StatusAfterEvent(inflight, sess_status)
    /\ svc_events' = Append(svc_events, inflight)
    /\ inflight' = NoEvent
    /\ UNCHANGED <<cas_pc, svc_pc, cancel_pc, cancels, engine_pc, max_steps,
                   has_tools, g, turns, step_count, final_state, engine_events,
                   engine_exc>>
    /\ UNCHANGED nonExecVars

\* execute: except ExecutionError as e: mark_failed, commit, yield an error event
SvcCatch ==
    /\ svc_pc = "iter"
    /\ inflight = NoEvent
    /\ engine_pc = "raised"
    /\ status' = Commit(sess_status, "failed", status)
    /\ sess_status' = "failed"
    /\ svc_events' = Append(svc_events, ExecutionEvent("error", None, None))
    /\ svc_pc' = "done"
    /\ UNCHANGED <<cas_pc, cancel_pc, cancels, engine_pc, max_steps, has_tools, g,
                   turns, step_count, final_state, engine_events, inflight,
                   engine_exc>>
    /\ UNCHANGED nonExecVars

\* execute: the engine's generator is exhausted, the `async for` ends
SvcFinish ==
    /\ svc_pc = "iter"
    /\ inflight = NoEvent
    /\ engine_pc = "done"
    /\ svc_pc' = "done"
    /\ UNCHANGED <<status, sess_status, cas_pc, svc_events, cancel_pc, cancels,
                   engine_pc, max_steps, has_tools, g, turns, step_count,
                   final_state, engine_events, inflight, engine_exc>>
    /\ UNCHANGED nonExecVars

\* create_and_start: the loop over execute ended (or raised, which is logged);
\* return await self.get(...)
CasReturn ==
    /\ cas_pc = "run"
    /\ svc_pc \in {"done", "rejected", "raised"}
    /\ cas_pc' = "returned"
    /\ UNCHANGED <<status, sess_status, svc_pc, svc_events, cancel_pc, cancels,
                   engine_pc, max_steps, has_tools, g, turns, step_count,
                   final_state, engine_events, inflight, engine_exc>>
    /\ UNCHANGED nonExecVars

\* cancel (a request of its own, with its own session): _get_and_verify reads
\* the stored record; raises ExecutionServiceError unless PENDING or RUNNING
CancelLoad ==
    /\ cancel_pc = "idle"
    /\ cancels < MaxCancels
    /\ status # "none"
    /\ cancels' = cancels + 1
    /\ cancel_pc' = IF status \in ActiveStatuses THEN "checked" ELSE "idle"
    /\ UNCHANGED <<status, sess_status, cas_pc, svc_pc, svc_events, engine_pc,
                   max_steps, has_tools, g, turns, step_count, final_state,
                   engine_events, inflight, engine_exc>>
    /\ UNCHANGED nonExecVars

\* cancel: execution.mark_cancelled(); await self._session.commit()
CancelCommit ==
    /\ cancel_pc = "checked"
    /\ status' = "cancelled"
    /\ cancel_pc' = "idle"
    /\ UNCHANGED <<sess_status, cas_pc, svc_pc, svc_events, cancels, engine_pc,
                   max_steps, has_tools, g, turns, step_count, final_state,
                   engine_events, inflight, engine_exc>>
    /\ UNCHANGED nonExecVars

\* execute, between the status check and mark_running: the workflow query
\* (scalar_one), list_all_decrypted or the commit raises.  This is ahead of
\* the `try`, so the exception leaves execute; create_and_start logs it.
SvcLookupFails ==
    /\ svc_pc = "loaded"
    /\ svc_pc' = "raised"
    /\ UNCHANGED <<status, sess_status, cas_pc, svc_events, cancel_pc, cancels,
                   engine_pc, max_steps, has_tools, g, turns, step_count,
                   final_state, engine_events, inflight, engine_exc>>
    /\ UNCHANGED nonExecVars

\* ------------------------------------------------------------------ timeout
\* self.timeout seconds (settings.execution_timeout) have passed since the
\* engine's generator started, and the run has not ended
TimeoutElapses ==
    /\ engine_pc \in {"setup", "stream"}
    /\ ~overdue
    /\ overdue' = TRUE
    /\ UNCHANGED <<st_pc, st_sess>>
    /\ UNCHANGED <<execVars, gwVars, trVars, queryVars, callToolVars, pipeVars, injVars,
                   toolVars, libVars>>

\* ------------------------------------------------------------------ stream endpoint
\* GET /executions/{id}/stream: a request of its own, with its own session,
\* whose event_generator iterates service.execute(execution_id, user.id).
\* service.get and execute's _get_and_verify read the stored record; execute
\* raises ExecutionServiceError unless the status is PENDING or RUNNING.
StreamLoad ==
    /\ st_pc = "idle"
    /\ status # "none"
    /\ st_sess' = status
    /\ st_pc' = IF status \in ActiveStatuses THEN "loaded" ELSE "rejected"
    /\ UNCHANGED overdue
    /\ UNCHANGED <<execVars, gwVars, trVars, queryVars, callToolVars, pipeVars, injVars,
                   toolVars, libVars>>

\* the workflow query, list_all_decrypted or the commit raises in this call
StreamLookupFails ==
    /\ st_pc = "loaded"
    /\ st_pc' = "raised"
    /\ UNCHANGED <<overdue, st_sess>>
    /\ UNCHANGED <<execVars, gwVars, trVars, queryVars, callToolVars, pipeVars, injVars,
                   toolVars, libVars>>

\* execution.mark_running(); commit; then `async for event in
\* self._engine.execute(...)` starts an engine run of the workflow
StreamMarkRunning ==
    /\ st_pc = "loaded"
    /\ status' = Commit(st_sess, "running", status)
    /\ st_sess' = "running"
    /\ st_pc' = "engine"
    /\ UNCHANGED overdue
    /\ UNCHANGED <<sess_status, cas_pc, svc_pc, svc_events, cancel_pc, cancels,
                   engine_pc, max_steps, has_tools, g, turns, step_count,
                   final_state, engine_events, inflight, engine_exc>>
    /\ UNCHANGED <<gwVars, trVars, queryVars, callToolVars, pipeVars, injVars,
                   toolVars, libVars>>

\* that engine run reaches its end while the client reads: a complete event
\* (mark_completed, commit), or an error event or ExecutionError (mark_failed,
\* commit)
StreamRun ==
    /\ st_pc = "engine"
    /\ \E outcome \in {"completed", "failed"} :
         /\ status' = Commit(st_sess, outcome, status)
         /\ st_sess' = outcome
    /\ st_pc' = "done"
    /\ UNCHANGED overdue
    /\ UNCHANGED <<sess_status, cas_pc, svc_pc, svc_events, cancel_pc, cancels,
                   engine_pc, max_steps, has_tools, g, turns, step_count,
                   final_state, engine_events, inflight, engine_exc>>
    /\ UNCHANGED <<gwVars, trVars, queryVars, callToolVars, pipeVars, injVars,
                   toolVars, libVars>>

\* the client disconnects before the terminal event: the response closes
\* event_generator and with it execute, suspended at `yield event`;
\* GeneratorExit / CancelledError is not an Exception, so neither handler of
\* execute runs and the record is left as it is
StreamAbandon ==
    /\ st_pc = "engine"
    /\ st_pc' = "closed"
    /\ UNCHANGED <<overdue, st_sess>>
    /\ UNCHANGED <<execVars, gwVars, trVars, queryVars, callToolVars, pipeVars, injVars,
                   toolVars, libVars>>

\* ------------------------------------------------------------------ registry
\* ids used with the registry: the five default servers, one server registered
\* later, and one id that is never registered
ServerIds == {"slack", "github", "filesystem", "google_drive", "notion",
              "custom_sse", "missing"}

\* dict.get(server_id) found nothing
NoConfig == [id |-> "none", transport |-> "none", credential_type |-> "none",
             has_command |-> FALSE, has_url |-> FALSE, enabled |-> FALSE]

MCPServerConfig(id, transport, cred, cmd, url, en) ==
    [id |-> id, transport |-> transport, credential_type |-> cred,
     has_command |-> cmd, has_url |-> url, enabled |-> en]

\* MCPServerRegistry._get_default_servers
DefaultServers ==
    [sid \in ServerIds |->
       CASE sid = "slack" ->
              MCPServerConfig("slack", "streamable_http", "slack_oauth", FALSE, TRUE, TRUE)
         [] sid = "github" ->
              MCPServerConfig("github", "streamable_http", "github_token", FALSE, TRUE, TRUE)
         [] sid = "filesystem" ->
              MCPServerConfig("filesystem", "stdio", "none", TRUE, FALSE, TRUE)
         [] sid = "google_drive" ->
              MCPServerConfig("google_drive", "streamable_http", "google_oauth", FALSE, TRUE, FALSE)
         [] sid = "notion" ->
              MCPServerConfig("notion", "stdio", "notion_oauth", TRUE, FALSE, TRUE)
         [] OTHER -> NoConfig]

\* configs passed to register: the defaults again, and a server over SSE
RegisterInputs ==
    {DefaultServers[sid] : sid \in {"slack", "github", "filesystem", "google_drive", "notion"}}
      \cup {MCPServerConfig("custom_sse", "sse", "none", FALSE, TRUE, TRUE)}

\* get without the enabled test, as `return self.servers.get(server_id)`
RegistryGetAnyState(reg, sid) == reg[sid]

\* MCPServerRegistry.get: the config only when registered and enabled
RegistryGet(reg, sid) ==
    IF reg[sid] # NoConfig /\ reg[sid].enabled THEN reg[sid] ELSE NoConfig

\* self._registry.servers.get(server_id), as MCPGateway.connection resolves it
ServersGet(reg, sid) == reg[sid]

\* no get / list_available call since the catalog last changed
NoCall == [op |-> "none", id |-> "none", credentials |-> {}, config |-> NoConfig,
           servers |-> {}]

\* MCPServerRegistry.register
Register ==
    /\ \E cfg \in RegisterInputs : registry' = [registry EXCEPT ![cfg.id] = cfg]
    /\ UNCHANGED <<conn_pc, conn_server, conn_cfg, proc, proc_log, cleanup_runs,
                   client, pending_exc, conn_raised>>
    /\ reg_call' = NoCall
    /\ UNCHANGED <<user_credentials, conn_auth, conn_yielded>>
    /\ UNCHANGED nonGatewayVars

\* MCPServerRegistry.unregister
Unregister ==
    /\ \E sid \in ServerIds : registry' = [registry EXCEPT ![sid] = NoConfig]
    /\ UNCHANGED <<conn_pc, conn_server, conn_cfg, proc, proc_log, cleanup_runs,
                   client, pending_exc, conn_raised>>
    /\ reg_call' = NoCall
    /\ UNCHANGED <<user_credentials, conn_auth, conn_yielded>>
    /\ UNCHANGED nonGatewayVars

\* MCPServerRegistry.enable
Enable ==
    /\ \E sid \in ServerIds :
         registry' = IF registry[sid] # NoConfig
                     THEN [registry EXCEPT ![sid].enabled = TRUE]
                     ELSE registry
    /\ UNCHANGED <<conn_pc, conn_server, conn_cfg, proc, proc_log, cleanup_runs,
                   client, pending_exc, conn_raised>>
    /\ reg_call' = NoCall
    /\ UNCHANGED <<user_credentials, conn_auth, conn_yielded>>
    /\ UNCHANGED nonGatewayVars

\* MCPServerRegistry.disable
Disable ==
    /\ \E sid \in ServerIds :
         registry' = IF registry[sid] # NoConfig
                     THEN [registry EXCEPT ![sid].enabled = FALSE]
                     ELSE registry
    /\ UNCHANGED <<conn_pc, conn_server, conn_cfg, proc, proc_log, cleanup_runs,
                   client, pending_exc, conn_raised>>
    /\ reg_call' = NoCall
    /\ UNCHANGED <<user_credentials, conn_auth, conn_yielded>>
    /\ UNCHANGED nonGatewayVars

\* ------------------------------------------------------------------ gateway
\* subclasses of MCPGatewayError
MCPGatewayErrors == {"MCPServerNotFoundError", "MCPConnectionError", "MCPToolError"}

\* what reading the response of one _send_request can meet
RequestOutcomes == {"result", "error_response", "timeout", "eof", "bad_json"}

\* _SubprocessMCPConnection._send_request: the exception each outcome raises
SendRequestRaises(outcome) ==
    CASE outcome = "error_response" -> "MCPToolError"
      [] outcome = "timeout"        -> "TimeoutError"
      [] outcome = "eof"            -> "MCPConnectionError"
      [] outcome = "bad_json"       -> "JSONDecodeError"
      [] OTHER                      -> "none"

\* exceptions the body of the caller's `async with` block may end with
BodyOutcomes == {"none", "MCPToolError", "ValueError"}

\* MCPGateway.connection: `except MCPGatewayError: raise`, and
\* `except Exception as e: raise MCPConnectionError(...) from e`
ConnectionReraise(exc) ==
    IF exc = "none" \/ exc \in MCPGatewayErrors THEN exc ELSE "MCPConnectionError"

\* _stdio_connection, finally: `if proc.returncode is None`
ReturncodeIsNone(p) == p = "running"

\* the user_credentials argument: None, or a dict with the given keys
NoCredentials == [given |-> FALSE, keys |-> {}]
CredentialsDict(keys) == [given |-> TRUE, keys |-> keys]

\* user_credentials values passed to connection()
CredentialInputs ==
    {NoCredentials} \cup
    {CredentialsDict(k) : k \in {{}, {"access_token"}, {"token"}, {"api_key"},
                                 {"refresh_token"}}}

\* `if credentials:` - None and the empty dict are both false
CredentialsTruthy(credentials) == credentials.given /\ credentials.keys # {}

\* _stdio_connection: the environment variable the credential is put into
StdioEnv(config, credentials) ==
    IF ~CredentialsTruthy(credentials) THEN {}
    ELSE IF config.id = "notion" /\ "access_token" \in credentials.keys THEN {"NOTION_TOKEN"}
    ELSE IF "token" \in credentials.keys THEN {"MCP_TOKEN"}
    ELSE IF "api_key" \in credentials.keys THEN {"MCP_API_KEY"}
    ELSE {}

\* _http_connection / _sse_connection: the header the credential is put into
\* (the SSE variant has no api_key branch)
RequestHeaders(config, credentials) ==
    IF ~CredentialsTruthy(credentials) THEN {}
    ELSE IF "access_token" \in credentials.keys THEN {"Authorization"}
    ELSE IF "token" \in credentials.keys THEN {"Authorization"}
    ELSE IF "api_key" \in credentials.keys /\ config.transport # "sse" THEN {"X-API-Key"}
    ELSE {}

\* connection: config = self._registry.servers.get(server_id); None raises
\* MCPServerNotFoundError; otherwise dispatch on config.transport
ConnEnter ==
    /\ conn_pc = "idle"
    /\ \E sid \in ServerIds :
         LET config == ServersGet(registry, sid)
         IN /\ conn_server' = sid
            /\ conn_cfg' = config
            /\ IF config = NoConfig
               THEN /\ conn_raised' = "MCPServerNotFoundError"
                    /\ conn_pc' = "ended"
               ELSE /\ conn_raised' = "none"
                    /\ conn_pc' = IF config.transport = "stdio" THEN "stdio" ELSE "http"
    /\ UNCHANGED <<registry, proc, proc_log, cleanup_runs, client, pending_exc>>
    /\ UNCHANGED <<reg_call, user_credentials, conn_auth, conn_yielded>>
    /\ UNCHANGED nonGatewayVars

\* _stdio_connection up to the try: the command check, the environment with
\* the credential in it, then asyncio.create_subprocess_exec, which may fail
\* (OSError)
StdioSpawn ==
    /\ conn_pc = "stdio"
    /\ \E started \in BOOLEAN :
         IF ~conn_cfg.has_command
         THEN /\ pending_exc' = "MCPConnectionError"
              /\ conn_pc' = "propagate"
              /\ UNCHANGED <<proc, proc_log, conn_auth>>
         ELSE IF started
         THEN /\ proc' = "running"
              /\ proc_log' = Append(proc_log, "spawn")
              /\ conn_auth' = StdioEnv(conn_cfg, user_credentials)
              /\ conn_pc' = "initialize"
              /\ UNCHANGED pending_exc
         ELSE /\ pending_exc' = "OSError"
              /\ conn_auth' = StdioEnv(conn_cfg, user_credentials)
              /\ conn_pc' = "propagate"
              /\ UNCHANGED <<proc, proc_log>>
    /\ UNCHANGED <<registry, conn_server, conn_cfg, cleanup_runs, client, conn_raised>>
    /\ UNCHANGED <<reg_call, user_credentials, conn_yielded>>
    /\ UNCHANGED nonGatewayVars

\* the subprocess exits on its own while the scope is open
ProcExits ==
    /\ conn_pc \in {"initialize", "list_tools", "body"}
    /\ proc = "running"
    /\ proc' = "exited"
    /\ UNCHANGED <<registry, conn_pc, conn_server, conn_cfg, proc_log, cleanup_runs,
                   client, pending_exc, conn_raised>>
    /\ UNCHANGED <<reg_call, user_credentials, conn_auth, conn_yielded>>
    /\ UNCHANGED nonGatewayVars

\* await subprocess_conn.initialize(): a result needs a live process
StdioInitialize ==
    /\ conn_pc = "initialize"
    /\ \E outcome \in RequestOutcomes :
         /\ outcome = "result" => proc = "running"
         /\ pending_exc' = SendRequestRaises(outcome)
         /\ conn_pc' = IF outcome = "result" THEN "list_tools" ELSE "cleanup"
    /\ UNCHANGED <<registry, conn_server, conn_cfg, proc, proc_log, cleanup_runs,
                   client, conn_raised>>
    /\ UNCHANGED <<reg_call, user_credentials, conn_auth, conn_yielded>>
    /\ UNCHANGED nonGatewayVars

\* await subprocess_conn.list_tools(), build MCPServerConnection, yield it
StdioListTools ==
    /\ conn_pc = "list_tools"
    /\ \E outcome \in RequestOutcomes :
         /\ outcome = "result" => proc = "running"
         /\ pending_exc' = SendRequestRaises(outcome)
         /\ conn_pc' = IF outcome = "result" THEN "body" ELSE "cleanup"
         /\ conn_yielded' = (outcome = "result")
    /\ UNCHANGED <<registry, conn_server, conn_cfg, proc, proc_log, cleanup_runs,
                   client, conn_raised>>
    /\ UNCHANGED <<reg_call, user_credentials, conn_auth>>
    /\ UNCHANGED nonGatewayVars

\* the caller's block runs and ends, normally or with an exception; for a
\* stdio scope control enters the finally block, for an HTTP/SSE scope the
\* sse_client context closes the client
Body ==
    /\ conn_pc = "body"
    /\ \E exc \in BodyOutcomes : pending_exc' = exc
    /\ IF conn_cfg.transport = "stdio"
       THEN /\ conn_pc' = "cleanup"
            /\ UNCHANGED client
       ELSE /\ conn_pc' = "propagate"
            /\ client' = "closed"
    /\ UNCHANGED <<registry, conn_server, conn_cfg, proc, proc_log, cleanup_runs,
                   conn_raised>>
    /\ UNCHANGED <<reg_call, user_credentials, conn_auth, conn_yielded>>
    /\ UNCHANGED nonGatewayVars

\* finally: if proc.returncode is None: proc.terminate()
CleanupTerminate ==
    /\ conn_pc = "cleanup"
    /\ cleanup_runs' = cleanup_runs + 1
    /\ IF ReturncodeIsNone(proc)
       THEN /\ proc_log' = Append(proc_log, "terminate")
            /\ conn_pc' = "wait"
       ELSE /\ conn_pc' = "propagate"
            /\ UNCHANGED proc_log
    /\ UNCHANGED <<registry, conn_server, conn_cfg, proc, client, pending_exc,
                   conn_raised>>
    /\ UNCHANGED <<reg_call, user_credentials, conn_auth, conn_yielded>>
    /\ UNCHANGED nonGatewayVars

\* the timeout handler without the kill, as `except asyncio.TimeoutError: pass`
OnWaitTimeoutNoKill(p, log) == [proc |-> p, log |-> Append(log, "wait_for_5")]

\* what the finally block does when wait_for(proc.wait(), timeout=5) times out:
\* except asyncio.TimeoutError: proc.kill()
OnWaitTimeout(p, log) == [proc |-> "killed", log |-> log \o <<"wait_for_5", "kill">>]

\* await asyncio.wait_for(proc.wait(), timeout=5): the process exits in time,
\* or the wait times out
CleanupWait ==
    /\ conn_pc = "wait"
    /\ \E in_time \in BOOLEAN :
         IF in_time
         THEN /\ proc' = "exited"
              /\ proc_log' = Append(proc_log, "wait_for_5")
         ELSE /\ proc' = OnWaitTimeout(proc, proc_log).proc
              /\ proc_log' = OnWaitTimeout(proc, proc_log).log
    /\ conn_pc' = "propagate"
    /\ UNCHANGED <<registry, conn_server, conn_cfg, cleanup_runs, client, pending_exc,
                   conn_raised>>
    /\ UNCHANGED <<reg_call, user_credentials, conn_auth, conn_yielded>>
    /\ UNCHANGED nonGatewayVars

\* _http_connection / _sse_connection: the url check, the headers with the
\* credential in them, then entering sse_client(config.url, headers=headers),
\* which may fail
HttpOpen ==
    /\ conn_pc = "http"
    /\ \E opened \in BOOLEAN :
         IF ~conn_cfg.has_url
         THEN /\ pending_exc' = "MCPConnectionError"
              /\ conn_pc' = "propagate"
              /\ UNCHANGED <<client, conn_auth>>
         ELSE IF opened
         THEN /\ client' = "open"
              /\ conn_auth' = RequestHeaders(conn_cfg, user_credentials)
              /\ conn_pc' = "http_session"
              /\ UNCHANGED pending_exc
         ELSE /\ pending_exc' = "ConnectError"
              /\ conn_auth' = RequestHeaders(conn_cfg, user_credentials)
              /\ conn_pc' = "propagate"
              /\ UNCHANGED client
    /\ UNCHANGED <<registry, conn_server, conn_cfg, proc, proc_log, cleanup_runs,
                   conn_raised>>
    /\ UNCHANGED <<reg_call, user_credentials, conn_yielded>>
    /\ UNCHANGED nonGatewayVars

\* session.initialize() and session.list_tools() inside the sse_client block:
\* both succeed and the connection is yielded, or one raises and the
\* sse_client context closes the client
HttpSession ==
    /\ conn_pc = "http_session"
    /\ \E ok \in BOOLEAN :
         IF ok
         THEN /\ conn_pc' = "body"
              /\ conn_yielded' = TRUE
              /\ UNCHANGED <<client, pending_exc>>
         ELSE /\ pending_exc' = "McpError"
              /\ client' = "closed"
              /\ conn_pc' = "propagate"
              /\ UNCHANGED conn_yielded
    /\ UNCHANGED <<registry, conn_server, conn_cfg, proc, proc_log, cleanup_runs,
                   conn_raised>>
    /\ UNCHANGED <<reg_call, user_credentials, conn_auth>>
    /\ UNCHANGED nonGatewayVars

\* the exception, if any, passes the except clauses of connection() and
\* reaches the caller of the `async with`
ConnExit ==
    /\ conn_pc = "propagate"
    /\ conn_raised' = ConnectionReraise(pending_exc)
    /\ conn_pc' = "ended"
    /\ UNCHANGED <<registry, conn_server, conn_cfg, proc, proc_log, cleanup_runs,
                   client, pending_exc>>
    /\ UNCHANGED <<reg_call, user_credentials, conn_auth, conn_yielded>>
    /\ UNCHANGED nonGatewayVars

\* ------------------------------------------------------------------ transports
\* the three transport classes
TransportKinds == {"stdio", "streamable_http", "sse"}

\* is_connected of each class
IsConnected(kind, connected, process, cl) ==
    IF kind = "stdio"
    THEN connected /\ process # "none" /\ process = "running"
    ELSE connected /\ cl # "none"

\* asyncio's Process.terminate() on a process that has already exited and been
\* reaped raises ProcessLookupError
TerminateRaises(process) == process = "exited"

\* connect(): StdioTransport starts the process (MCPConnectionError when that
\* fails); the HTTP and SSE transports construct an httpx.AsyncClient
TrConnect ==
    /\ tr_pc = "idle"
    /\ tr_calls < MaxTransportCalls
    /\ tr_calls' = tr_calls + 1
    /\ \E started \in BOOLEAN :
         IF tr_kind = "stdio"
         THEN IF started
              THEN /\ tr_process' = "running"
                   /\ tr_connected' = TRUE
                   /\ tr_raised' = "none"
                   /\ tr_log' = tr_log \o <<"connect", "spawn">>
                   /\ UNCHANGED tr_client
              ELSE /\ tr_raised' = "MCPConnectionError"
                   /\ tr_log' = Append(tr_log, "connect")
                   /\ UNCHANGED <<tr_process, tr_connected, tr_client>>
         ELSE /\ tr_client' = "open"
              /\ tr_connected' = TRUE
              /\ tr_raised' = "none"
              /\ tr_log' = Append(tr_log, "connect")
              /\ UNCHANGED tr_process
    /\ UNCHANGED <<tr_kind, tr_pc>>
    /\ UNCHANGED nonTransportVars

\* the process of a StdioTransport exits on its own
TrProcExits ==
    /\ tr_pc = "idle"
    /\ tr_process = "running"
    /\ tr_process' = "exited"
    /\ UNCHANGED <<tr_kind, tr_client, tr_connected, tr_pc, tr_log, tr_raised, tr_calls>>
    /\ UNCHANGED nonTransportVars

\* disconnect().  StdioTransport: if self._process: terminate(), then
\* await self._process.wait().  HTTP/SSE: if self._client: await aclose(),
\* _connected = False
TrDisconnect ==
    /\ tr_pc = "idle"
    /\ tr_calls < MaxTransportCalls
    /\ tr_calls' = tr_calls + 1
    /\ IF tr_kind = "stdio"
       THEN IF tr_process = "none"
            THEN /\ tr_raised' = "none"
                 /\ tr_log' = Append(tr_log, "disconnect")
                 /\ UNCHANGED <<tr_pc, tr_connected, tr_client>>
            ELSE IF TerminateRaises(tr_process)
            THEN /\ tr_raised' = "ProcessLookupError"
                 /\ tr_log' = Append(tr_log, "disconnect")
                 /\ UNCHANGED <<tr_pc, tr_connected, tr_client>>
            ELSE /\ tr_raised' = "none"
                 /\ tr_log' = tr_log \o <<"disconnect", "terminate", "wait">>
                 /\ tr_pc' = "waiting"
                 /\ UNCHANGED <<tr_connected, tr_client>>
       ELSE IF tr_client = "none"
            THEN /\ tr_raised' = "none"
                 /\ tr_log' = Append(tr_log, "disconnect")
                 /\ UNCHANGED <<tr_pc, tr_connected, tr_client>>
            ELSE /\ tr_client' = "closed"
                 /\ tr_connected' = FALSE
                 /\ tr_raised' = "none"
                 /\ tr_log' = tr_log \o <<"disconnect", "aclose">>
                 /\ UNCHANGED tr_pc
    /\ UNCHANGED <<tr_kind, tr_process>>
    /\ UNCHANGED nonTransportVars

\* StdioTransport.disconnect: the process exits, await self._process.wait()
\* returns, _connected = False.  A process that ignores the terminate signal
\* never lets this step happen.
TrWaitReturns ==
    /\ tr_pc = "waiting"
    /\ tr_process' = "exited"
    /\ tr_connected' = FALSE
    /\ tr_pc' = "idle"
    /\ UNCHANGED <<tr_kind, tr_client, tr_log, tr_raised, tr_calls>>
    /\ UNCHANGED nonTransportVars

\* ------------------------------------------------------------------ call_tool
\* tool names passed to call_tool
ToolNames == {"notion-search", "read_file", "post_message"}

\* what an MCPServerConnection carries: _stdio_connection attaches
\* _subprocess_conn and leaves session None, _http_connection and
\* _sse_connection set session
ConnectionKind(config) == IF config.transport = "stdio" THEN "subprocess" ELSE "session"

\* what awaiting connection.session.call_tool can meet
SessionOutcomes == {"result", "McpError", "TimeoutError"}

\* outcomes of the call underneath call_tool, by kind of connection
CallOutcomes(kind) ==
    CASE kind = "subprocess" -> RequestOutcomes
      [] kind = "session"    -> SessionOutcomes
      [] OTHER               -> {"result"}

\* an exception: its type and the parts its message is made of
Exc(type, message) == [type |-> type, message |-> message]
NoExc == Exc("none", <<>>)

\* the exception the call underneath call_tool ends with, with the message
\* the code gives it
UnderlyingRaises(kind, outcome) ==
    CASE kind = "neither" ->
           Exc("MCPToolError", <<"Connection has no active session or subprocess">>)
      [] kind = "subprocess" /\ outcome = "error_response" ->
           Exc(SendRequestRaises(outcome), <<"MCP error: ", "server_message">>)
      [] kind = "subprocess" /\ outcome = "eof" ->
           Exc(SendRequestRaises(outcome), <<"MCP server closed connection">>)
      [] kind = "subprocess" /\ outcome = "timeout" ->
           Exc(SendRequestRaises(outcome), <<>>)
      [] kind = "subprocess" /\ outcome = "bad_json" ->
           Exc(SendRequestRaises(outcome), <<"Expecting value">>)
      [] kind = "session" /\ outcome = "McpError" ->
           Exc("McpError", <<"server_message">>)
      [] kind = "session" /\ outcome = "TimeoutError" ->
           Exc("TimeoutError", <<>>)
      [] OTHER -> NoExc

\* call_tool: `except MCPToolError: raise`, and `except Exception as e:
\* raise MCPToolError(f"Tool '{tool_name}' failed: {str(e)}") from e`
CallToolReraise(exc, tool_name) ==
    IF exc.type \in {"none", "MCPToolError"}
    THEN exc
    ELSE Exc("MCPToolError", <<"Tool '", tool_name, "' failed: ">> \o exc.message)

\* MCPGateway.call_tool(connection, tool_name, arguments)
CallTool ==
    /\ ct_pc = "ready"
    /\ ct_raised' = CallToolReraise(UnderlyingRaises(ct_kind, ct_outcome), ct_tool)
    /\ ct_pc' = "returned"
    /\ UNCHANGED <<ct_server, ct_kind, ct_tool, ct_outcome>>
    /\ UNCHANGED <<execVars, gwVars, trVars, queryVars, pipeVars, injVars, toolVars,
                   libVars, runVars>>

\* ------------------------------------------------------------------ subprocess connection
\* coroutines calling _send_request on one _SubprocessMCPConnection
Callers == {"a", "b"}

\* a line on the subprocess's stdout: the id it carries (None without one) and
\* what it holds - a result, an error object, a notification, text that is not
\* JSON, or the end of the stream
Line(id, kind) == [id |-> id, kind |-> kind]

\* what one _send_request ended with: "none" before any call, "result" when it
\* returned, otherwise the exception type; with the id of the request written
\* and the id carried by the line read
Return(kind, request, response) == [kind |-> kind, request |-> request, response |-> response]
NoReturn == Return("none", 0, 0)

\* the subprocess has closed its stdout
StdoutClosed == Len(stdout) > 0 /\ stdout[Len(stdout)].kind = "eof"

\* a lock that lets every caller in
LockNeverHeld(l) == TRUE

\* `async with self._lock` can enter: no coroutine holds the asyncio.Lock
LockFree(l) == l = "free"

\* _send_request up to the first await that can block: take the lock,
\* self._request_id += 1, write the request line to stdin (stdin and stdout
\* are pipes, create_subprocess_exec was called with PIPE)
SendWrite(c) ==
    /\ rq_pc[c] = "idle"
    /\ LockFree(lock)
    /\ request_id < MaxRequests
    /\ lock' = c
    /\ request_id' = request_id + 1
    /\ rq_id' = [rq_id EXCEPT ![c] = request_id + 1]
    /\ stdin' = Append(stdin, request_id + 1)
    /\ unanswered' = unanswered \cup {request_id + 1}
    /\ rq_pc' = [rq_pc EXCEPT ![c] = "reading"]
    /\ UNCHANGED <<rq_ret, stdout, unsolicited>>
    /\ UNCHANGED <<execVars, gwVars, trVars, queryVars, callToolVars, injVars, toolVars,
                   libVars, runVars>>

\* what _send_request does with the line readline() returned
LineOutcome(line) ==
    CASE line.kind = "eof"          -> "MCPConnectionError"
      [] line.kind = "garbage"      -> "JSONDecodeError"
      [] line.kind = "error"        -> "MCPToolError"
      [] OTHER                      -> "result"

\* readline() returns the next line of stdout; json.loads, the "error" check,
\* return response.get("result"); leaving `async with self._lock`
SendRead(c) ==
    /\ rq_pc[c] = "reading"
    /\ Len(stdout) > 0
    /\ LET line == Head(stdout)
       IN /\ rq_ret' = [rq_ret EXCEPT ![c] = Return(LineOutcome(line), rq_id[c], line.id)]
          /\ stdout' = IF line.kind = "eof" THEN stdout ELSE Tail(stdout)
    /\ rq_pc' = [rq_pc EXCEPT ![c] = "idle"]
    /\ lock' = "free"
    /\ UNCHANGED <<request_id, rq_id, stdin, unanswered, unsolicited>>
    /\ UNCHANGED <<execVars, gwVars, trVars, queryVars, callToolVars, injVars, toolVars,
                   libVars, runVars>>

\* asyncio.wait_for(readline(), timeout=60.0) times out: no line arrived
SendTimeout(c) ==
    /\ rq_pc[c] = "reading"
    /\ Len(stdout) = 0
    /\ rq_ret' = [rq_ret EXCEPT ![c] = Return("TimeoutError", rq_id[c], None)]
    /\ rq_pc' = [rq_pc EXCEPT ![c] = "idle"]
    /\ lock' = "free"
    /\ UNCHANGED <<request_id, rq_id, stdin, stdout, unanswered, unsolicited>>
    /\ UNCHANGED <<execVars, gwVars, trVars, queryVars, callToolVars, injVars, toolVars,
                   libVars, runVars>>

\* the subprocess answers one of the requests it has read, with a result or
\* with an error object
ServerResponds ==
    /\ ~StdoutClosed
    /\ \E id \in unanswered, kind \in {"result", "error"} :
         /\ stdout' = Append(stdout, Line(id, kind))
         /\ unanswered' = unanswered \ {id}
    /\ UNCHANGED <<request_id, lock, rq_pc, rq_id, rq_ret, stdin, unsolicited>>
    /\ UNCHANGED <<execVars, gwVars, trVars, queryVars, callToolVars, injVars, toolVars,
                   libVars, runVars>>

\* the subprocess writes a line nobody asked for: a notification, or text that
\* is not JSON
ServerWritesUnsolicited ==
    /\ ~StdoutClosed
    /\ unsolicited < MaxUnsolicited
    /\ unsolicited' = unsolicited + 1
    /\ \E kind \in {"notification", "garbage"} :
         stdout' = Append(stdout, Line(None, kind))
    /\ UNCHANGED <<request_id, lock, rq_pc, rq_id, rq_ret, stdin, unanswered>>
    /\ UNCHANGED <<execVars, gwVars, trVars, queryVars, callToolVars, injVars, toolVars,
                   libVars, runVars>>

\* the subprocess closes its stdout: every later readline() returns b""
ServerCloses ==
    /\ ~StdoutClosed
    /\ stdout' = Append(stdout, Line(None, "eof"))
    /\ UNCHANGED <<request_id, lock, rq_pc, rq_id, rq_ret, stdin, unanswered,
                   unsolicited>>
    /\ UNCHANGED <<execVars, gwVars, trVars, queryVars, callToolVars, injVars, toolVars,
                   libVars, runVars>>

\* ------------------------------------------------------------------ credential injector
\* credential types with an entry in CREDENTIAL_STRATEGIES
StrategyTypes == {"slack_oauth", "github_token", "openai_api_key", "anthropic_api_key",
                  "google_oauth", "notion_token", "weather_api_key", "generic_api_key"}

\* one injection strategy; name is header_name / param_name / env_name, "none"
\* when the entry has no such key
Strategy(method, token_field, name) ==
    [method |-> method, token_field |-> token_field, name |-> name]

\* CredentialInjector.CREDENTIAL_STRATEGIES
CREDENTIAL_STRATEGIES ==
    [t \in StrategyTypes |->
       CASE t = "slack_oauth"       -> Strategy("bearer", "access_token", "none")
         [] t = "github_token"      -> Strategy("bearer", "token", "none")
         [] t = "openai_api_key"    -> Strategy("bearer", "api_key", "none")
         [] t = "anthropic_api_key" -> Strategy("header", "api_key", "x-api-key")
         [] t = "google_oauth"      -> Strategy("bearer", "access_token", "none")
         [] t = "notion_token"      -> Strategy("bearer", "token", "none")
         [] t = "weather_api_key"   -> Strategy("query", "api_key", "appid")
         [] t = "generic_api_key"   -> Strategy("header", "api_key", "X-API-Key")]

\* the strategy prepare falls back to for a type without an entry
DefaultStrategy == Strategy("bearer", "token", "none")

\* fields a credential's data may hold a secret in
SecretFields == {"access_token", "token", "api_key"}

\* dict.get(field) on a key that is absent
Absent == "<absent>"

\* values of one field of credential.data: absent, empty, a secret
FieldValues == {Absent, "", "s3cret"}

\* credential types of the credentials passed to prepare: the table's types and
\* one type without an entry
CredentialTypes == StrategyTypes \cup {"notion_oauth"}

\* the credential argument: None, or a CredentialDecrypted
NoCredential == [credential_type |-> "none", data |-> [f \in SecretFields |-> Absent]]
CredentialDecrypted(type, data) == [credential_type |-> type, data |-> data]

\* InjectedCredentials(headers, params, env), each dict as a set of
\* <<key, value>> pairs; raised names the exception when prepare raised
InjectedCredentials(headers, params, env) ==
    [raised |-> "none", headers |-> headers, params |-> params, env |-> env]
InjectionRaised ==
    [raised |-> "CredentialInjectionError", headers |-> {}, params |-> {}, env |-> {}]

\* the first check without its effect, as `if False:`
NoAuthRequiredNever(config_type) == FALSE

\* if server_config.credential_type is None
NoAuthRequired(config_type) == config_type = "none"

\* the bearer value without its scheme, as headers["Authorization"] = token
BearerValueBare(token) == token

\* f"Bearer {token}"
BearerValue(token) == "Bearer " \o token

\* strategy.get(key, default)
StrategyName(strategy, default) ==
    IF strategy.name = "none" THEN default ELSE strategy.name

\* CredentialInjector.prepare
Prepare(config_type, credential) ==
    IF NoAuthRequired(config_type)
    THEN InjectedCredentials({}, {}, {})
    ELSE IF credential = NoCredential
    THEN InjectionRaised
    ELSE LET strategy == IF credential.credential_type \in StrategyTypes
                         THEN CREDENTIAL_STRATEGIES[credential.credential_type]
                         ELSE DefaultStrategy
             token == credential.data[strategy.token_field]
         IN IF token = Absent \/ token = ""
            THEN InjectionRaised
            ELSE CASE strategy.method = "bearer" ->
                        InjectedCredentials({<<"Authorization", BearerValue(token)>>}, {}, {})
                   [] strategy.method = "header" ->
                        InjectedCredentials({<<StrategyName(strategy, "X-API-Key"), token>>}, {}, {})
                   [] strategy.method = "query" ->
                        InjectedCredentials({}, {<<StrategyName(strategy, "api_key"), token>>}, {})
                   [] strategy.method = "env" ->
                        InjectedCredentials({}, {}, {<<StrategyName(strategy, "API_KEY"), token>>})
                   [] OTHER -> InjectedCredentials({}, {}, {})

\* one call injector.prepare(server_config, credential)
PrepareCall ==
    /\ inj_pc = "ready"
    /\ inj_ret' = Prepare(inj_config_type, inj_credential)
    /\ inj_pc' = "returned"
    /\ UNCHANGED <<inj_config_type, inj_credential>>
    /\ UNCHANGED <<execVars, gwVars, trVars, queryVars, callToolVars, pipeVars, toolVars,
                   libVars, runVars>>

\* ------------------------------------------------------------------ registry queries
\* credential types a user may hold, as passed to list_available
UserCredentialTypes == {"slack_oauth", "github_token", "google_oauth", "notion_oauth"}

\* the loop body of list_available without its first test, as a loop that
\* never skips a disabled server
IsAvailableNoEnabledCheck(server, available_credentials) ==
    IF server.credential_type = "none" THEN TRUE
    ELSE server.credential_type \in available_credentials

\* the loop body of list_available: whether `server` is appended to result
IsAvailable(server, available_credentials) ==
    IF ~server.enabled THEN FALSE
    ELSE IF server.credential_type = "none" THEN TRUE
    ELSE server.credential_type \in available_credentials

\* MCPServerRegistry.list_available: the servers appended while iterating over
\* self.servers.values()
ListAvailable(reg, available_credentials) ==
    {reg[sid] : sid \in {s \in ServerIds : /\ reg[s] # NoConfig
                                           /\ IsAvailable(reg[s], available_credentials)}}

\* one call registry.get(server_id)
GetCall ==
    /\ \E sid \in ServerIds :
         reg_call' = [op |-> "get", id |-> sid, credentials |-> {},
                      config |-> RegistryGet(registry, sid), servers |-> {}]
    /\ UNCHANGED gwVars
    /\ UNCHANGED nonGatewayVars

\* one call registry.list_available(available_credentials)
ListAvailableCall ==
    /\ \E creds \in SUBSET UserCredentialTypes :
         reg_call' = [op |-> "list_available", id |-> "none", credentials |-> creds,
                      config |-> NoConfig, servers |-> ListAvailable(registry, creds)]
    /\ UNCHANGED gwVars
    /\ UNCHANGED nonGatewayVars

\* the loop body of MCPGateway.get_servers_available_to_user: whether `server`
\* is appended to result
GatewayAppends(server, available_credentials) ==
    IF server.credential_type = "none" THEN TRUE
    ELSE server.credential_type \in available_credentials

\* MCPGateway.get_servers_available_to_user: the servers appended while
\* iterating over self._registry.servers.values()
GetServersAvailableToUser(reg, available_credentials) ==
    {reg[sid] : sid \in {s \in ServerIds : /\ reg[s] # NoConfig
                                           /\ GatewayAppends(reg[s], available_credentials)}}

\* one call gateway.get_servers_available_to_user(available_credentials)
GetServersAvailableToUserCall ==
    /\ \E creds \in SUBSET UserCredentialTypes :
         reg_call' = [op |-> "get_servers_available_to_user", id |-> "none",
                      credentials |-> creds, config |-> NoConfig,
                      servers |-> GetServersAvailableToUser(registry, creds)]
    /\ UNCHANGED gwVars
    /\ UNCHANGED nonGatewayVars

\* ------------------------------------------------------------------ tools from nodes
\* names under which load_builtin_nodes registers a node (nodes/registry.py)
BuiltinNodes == {"calculator", "text_processor", "json_transformer", "openai_chat",
                 "anthropic_chat", "weather_api", "slack_send_message",
                 "github_create_issue", "filesystem_read"}

\* node types a workflow's node instances carry: the builtin ones, and one
\* the node registry does not know
WorkflowNodeTypes == BuiltinNodes \cup {"notion_create_page"}

\* credential_type of each builtin node's definition, "none" for None
NodeCredentialType(node) ==
    CASE node = "openai_chat"         -> "openai_api_key"
      [] node = "anthropic_chat"      -> "anthropic_api_key"
      [] node = "weather_api"         -> "weather_api_key"
      [] node = "slack_send_message"  -> "slack_oauth"
      [] node = "github_create_issue" -> "github_token"
      [] OTHER                        -> "none"

\* the key each node's execute looks up in context.credentials
NodeCredentialKey(node) ==
    CASE node = "openai_chat"         -> "api_key"
      [] node = "anthropic_chat"      -> "api_key"
      [] node = "weather_api"         -> "api_key"
      [] node = "slack_send_message"  -> "access_token"
      [] node = "github_create_issue" -> "token"
      [] OTHER                        -> "none"

\* credential types of the credentials passed to an execution
ExecutionCredentialTypes == {"slack_oauth", "github_token", "weather_api_key",
                             "openai_api_key", "anthropic_api_key"}

\* the fields of a stored credential's data dict, by credential type
\* (CREDENTIAL_TYPES; a weather key is stored like the other API keys)
CredentialFields(type) ==
    CASE type = "slack_oauth"  -> {"access_token", "refresh_token", "expires_at"}
      [] type = "github_token" -> {"token"}
      [] OTHER                 -> {"api_key"}

\* cred_map[cred.credential_type] = cred.data: the keys of the map are the
\* credential types, each value the (non-empty) data dict of that credential
CredMap(credentials) == [t \in credentials |-> "data"]

\* context.credentials.get(key)
CredMapGet(cred_map, key) == IF key \in DOMAIN cred_map THEN cred_map[key] ELSE Absent

\* a registry that hands out a node for every type
ResolvesAnyType(node_type) == TRUE

\* registry.get(node_type) found a node
Resolves(node_type) == node_type \in BuiltinNodes

\* the tools _build_tools_from_nodes returns: one per node instance whose type
\* resolves, named after the node definition; other instances are skipped
ToolsFromNodes(nodes) == SelectSeq(nodes, Resolves)

\* how one tool call ended
Called(tool, raised, error_code) == [tool |-> tool, raised |-> raised, error_code |-> error_code]
NotCalled == Called("none", "none", "none")

\* node_wrapper: validate_input, then node_obj.execute(validated, context)
\* with context.credentials = cred_map.  A node that requires a credential
\* starts execute with its credential check; what follows may fail on its own.
NodeWrapper(tool, cred_map, valid, works) ==
    IF ~valid
    THEN Called(tool, "NodeValidationError", "none")
    ELSE IF NodeCredentialKey(tool) # "none"
            /\ CredMapGet(cred_map, NodeCredentialKey(tool)) = Absent
    THEN Called(tool, "NodeExecutionError", "MISSING_CREDENTIAL")
    ELSE IF ~works
    THEN Called(tool, "NodeExecutionError", "API_ERROR")
    ELSE Called(tool, "none", "none")

\* _build_tools_from_nodes(nodes, credentials)
BuildTools ==
    /\ tl_pc = "start"
    /\ tl_tools' = ToolsFromNodes(tl_nodes)
    /\ tl_build_raised' = "none"
    /\ tl_pc' = "built"
    /\ UNCHANGED <<tl_nodes, tl_credentials, tl_call>>
    /\ UNCHANGED <<execVars, gwVars, trVars, queryVars, callToolVars, pipeVars, injVars,
                   libVars, runVars>>

\* the agent calls one of the tools
ToolCall ==
    /\ tl_pc = "built"
    /\ \E i \in 1..Len(tl_tools), valid \in BOOLEAN, works \in BOOLEAN :
         tl_call' = NodeWrapper(tl_tools[i], CredMap(tl_credentials), valid, works)
    /\ UNCHANGED <<tl_nodes, tl_credentials, tl_pc, tl_tools, tl_build_raised>>
    /\ UNCHANGED <<execVars, gwVars, trVars, queryVars, callToolVars, pipeVars, injVars,
                   libVars, runVars>>

\* ------------------------------------------------------------------ node library
\* names of the node definitions handed to the library
NodeNames == {"calculator", "slack_send_message"}

\* class NodeCategory
NodeCategory == {"tool", "api", "mcp"}

\* MCP server ids and credential types node definitions refer to
NodeServerIds == {"slack", "github"}
NodeCredentialTypes == {"slack_oauth", "github_token"}

\* the values of the two optional str fields of a definition: None ("none"),
\* the empty string, or one of the ids above
OptionalValues(ids) == {"none", ""} \cup ids

\* NodeDefinition, by the fields the library reads
NodeDefinition(name, category, credential_type, mcp_server_id) ==
    [name |-> name, category |-> category, credential_type |-> credential_type,
     mcp_server_id |-> mcp_server_id]
NoNode == NodeDefinition("none", "none", "none", "none")

NodeDefinitions ==
    {NodeDefinition(n, c, t, sv) : n \in NodeNames, c \in NodeCategory,
                                  t \in OptionalValues(NodeCredentialTypes),
                                  sv \in OptionalValues(NodeServerIds)}

\* truth value of an optional str: `if node.mcp_server_id:`
Truthy(value) == value \notin {"none", ""}

\* a name test that never finds the name
NameNeverKnown(nodes, name) == FALSE

\* `node.name in self._nodes`
NameKnown(nodes, name) == nodes[name] # NoNode

\* list.remove(name): the list without the first occurrence of name
RECURSIVE ListRemove(_, _)
ListRemove(names, name) ==
    IF names = <<>> THEN <<>>
    ELSE IF Head(names) = name THEN Tail(names)
    ELSE <<Head(names)>> \o ListRemove(Tail(names), name)

\* `name in names`
ListHas(names, name) == \E i \in 1..Len(names) : names[i] = name

\* index.get(key, []) of the two indexes that are filled on demand
IndexGet(index, key) == IF key \in DOMAIN index THEN index[key] ELSE <<>>

\* [self._nodes[name] for name in names]
NodesNamed(nodes, names) == [i \in 1..Len(names) |-> nodes[names[i]]]

\* get_nodes_by_category, get_nodes_for_mcp_server, get_nodes_by_credential
GetNodesByCategory(nodes, by_category, category) ==
    NodesNamed(nodes, by_category[category])
GetNodesForMcpServer(nodes, by_mcp_server, mcp_server_id) ==
    NodesNamed(nodes, IndexGet(by_mcp_server, mcp_server_id))
GetNodesByCredential(nodes, by_credential, credential_type) ==
    NodesNamed(nodes, IndexGet(by_credential, credential_type))

\* the latest register / unregister call: the name it was about and what it
\* raised
LibraryCall(op, name, raised) == [op |-> op, name |-> name, raised |-> raised]
NoLibraryCall == LibraryCall("none", "none", "none")

\* NodeLibrary.register(node)
LibraryRegister ==
    /\ \E node \in NodeDefinitions :
         IF NameKnown(lib_nodes, node.name)
         THEN /\ lib_call' = LibraryCall("register", node.name, "NodeLibraryError")
              /\ UNCHANGED <<lib_nodes, lib_by_category, lib_by_mcp_server,
                             lib_by_credential>>
         ELSE /\ lib_nodes' = [lib_nodes EXCEPT ![node.name] = node]
              /\ lib_by_category' =
                   [lib_by_category EXCEPT ![node.category] = Append(@, node.name)]
              /\ lib_by_mcp_server' =
                   IF Truthy(node.mcp_server_id)
                   THEN [lib_by_mcp_server EXCEPT
                           ![node.mcp_server_id] = Append(@, node.name)]
                   ELSE lib_by_mcp_server
              /\ lib_by_credential' =
                   IF Truthy(node.credential_type)
                   THEN [lib_by_credential EXCEPT
                           ![node.credential_type] = Append(@, node.name)]
                   ELSE lib_by_credential
              /\ lib_call' = LibraryCall("register", node.name, "none")
    /\ UNCHANGED nonLibraryVars

\* NodeLibrary.unregister(name)
LibraryUnregister ==
    /\ \E name \in NodeNames :
         IF ~NameKnown(lib_nodes, name)
         THEN /\ lib_call' = LibraryCall("unregister", name, "none")
              /\ UNCHANGED <<lib_nodes, lib_by_category, lib_by_mcp_server,
                             lib_by_credential>>
         ELSE LET node == lib_nodes[name]
              IN /\ lib_nodes' = [lib_nodes EXCEPT ![name] = NoNode]
                 /\ lib_by_category' =
                      [lib_by_category EXCEPT ![node.category] = ListRemove(@, name)]
                 /\ lib_by_mcp_server' =
                      IF /\ Truthy(node.mcp_server_id)
                         /\ ListHas(IndexGet(lib_by_mcp_server, node.mcp_server_id), name)
                      THEN [lib_by_mcp_server EXCEPT
                              ![node.mcp_server_id] = ListRemove(@, name)]
                      ELSE lib_by_mcp_server
                 /\ lib_by_credential' =
                      IF /\ Truthy(node.credential_type)
                         /\ ListHas(IndexGet(lib_by_credential, node.credential_type), name)
                      THEN [lib_by_credential EXCEPT
                              ![node.credential_type] = ListRemove(@, name)]
                      ELSE lib_by_credential
                 /\ lib_call' = LibraryCall("unregister", name, "none")
    /\ UNCHANGED nonLibraryVars

\* ------------------------------------------------------------------ Spec
\* the execution machine before create_and_start
ExecInit ==
    /\ status = "none"
    /\ sess_status = "none"
    /\ cas_pc = "start"
    /\ svc_pc = "init"
    /\ svc_events = <<>>
    /\ cancel_pc = "idle"
    /\ cancels = 0
    /\ engine_pc = "init"
    /\ g = "input"
    /\ turns = <<>>
    /\ step_count = 0
    /\ final_state = FALSE
    /\ engine_events = <<>>
    /\ inflight = NoEvent
    /\ engine_exc = "none"

\* MCPGateway.__init__ (a registry with the default servers), no scope opened
GatewayInit ==
    /\ registry = DefaultServers
    /\ conn_pc = "idle"
    /\ conn_server = "none"
    /\ conn_cfg = NoConfig
    /\ proc = "none"
    /\ proc_log = <<>>
    /\ cleanup_runs = 0
    /\ client = "none"
    /\ pending_exc = "none"
    /\ conn_raised = "none"
    /\ conn_auth = {}
    /\ conn_yielded = FALSE
    /\ reg_call = NoCall

\* a transport after __init__
TransportInit ==
    /\ tr_process = "none"
    /\ tr_client = "none"
    /\ tr_connected = FALSE
    /\ tr_pc = "idle"
    /\ tr_log = <<>>
    /\ tr_raised = "none"
    /\ tr_calls = 0

\* a call_tool call not yet made, on the connection of the filesystem server
CallToolIdle ==
    /\ ct_server = "filesystem"
    /\ ct_kind = "subprocess"
    /\ ct_tool = "read_file"
    /\ ct_outcome = "result"
    /\ ct_pc = "ready"
    /\ ct_raised = NoExc

\* _SubprocessMCPConnection.__init__, and a subprocess that has written nothing
PipeInit ==
    /\ request_id = 0
    /\ lock = "free"
    /\ rq_pc = [c \in Callers |-> "idle"]
    /\ rq_id = [c \in Callers |-> 0]
    /\ rq_ret = [c \in Callers |-> NoReturn]
    /\ stdin = <<>>
    /\ stdout = <<>>
    /\ unanswered = {}
    /\ unsolicited = 0

\* a prepare call not yet made, for a server without credential_type
InjectorIdle ==
    /\ inj_config_type = "none"
    /\ inj_credential = NoCredential
    /\ inj_pc = "ready"
    /\ inj_ret = InjectedCredentials({}, {}, {})

\* a workflow without nodes, before _build_tools_from_nodes
ToolsIdle ==
    /\ tl_nodes = <<>>
    /\ tl_credentials = {}
    /\ tl_pc = "start"
    /\ tl_tools = <<>>
    /\ tl_build_raised = "none"
    /\ tl_call = NotCalled

\* NodeLibrary.__init__: no nodes, an empty list for every category, no other
\* index entry (an index without entry for a key answers like an empty list)
LibraryInit ==
    /\ lib_nodes = [n \in NodeNames |-> NoNode]
    /\ lib_by_category = [c \in NodeCategory |-> <<>>]
    /\ lib_by_mcp_server = [sv \in NodeServerIds |-> <<>>]
    /\ lib_by_credential = [t \in NodeCredentialTypes |-> <<>>]
    /\ lib_call = NoLibraryCall

\* the timeout has not elapsed, no second execute call has been made
RunIdle ==
    /\ overdue = FALSE
    /\ st_pc = "idle"
    /\ st_sess = "none"

Init ==
    /\ ExecInit
    /\ max_steps \in 1..MaxStepsBound
    /\ has_tools \in BOOLEAN
    /\ GatewayInit
    /\ LibraryInit
    /\ RunIdle
    /\ TransportInit
    /\ tr_kind = "stdio"
    /\ user_credentials = NoCredentials
    /\ CallToolIdle
    /\ PipeInit
    /\ InjectorIdle
    /\ ToolsIdle

Next ==
    \/ Create
    \/ UpdateStatusRunning
    \/ SvcLoad
    \/ SvcMarkRunning
    \/ SvcRelay
    \/ SvcCatch
    \/ SvcFinish
    \/ CasReturn
    \/ CancelLoad
    \/ CancelCommit
    \/ EngineStart
    \/ EngineSetup
    \/ EngineNodeRaises
    \/ EngineChunk
    \/ EngineComplete
    \/ EngineReturn
    \/ EngineYieldError
    \/ EngineRaiseWrapped

Spec == Init /\ [][Next]_vars

\* the same execution, with the wall clock of the run
NextTimed ==
    \/ Next
    \/ TimeoutElapses

SpecTimed == Init /\ [][NextTimed]_vars

\* the same execution, with the failures ahead of the engine and a stream
\* request for the same execution id
NextStream ==
    \/ Next
    \/ SvcLookupFails
    \/ StreamLoad
    \/ StreamLookupFails
    \/ StreamMarkRunning
    \/ StreamRun
    \/ StreamAbandon

SpecStream == Init /\ [][NextStream]_vars

\* The event loop resumes every coroutine that is ready, and every awaited
\* call of the engine returns or raises: each step of the service, of the
\* engine's generator and of a request already past its load is eventually
\* taken.  Requests arriving (cancel, stream), a lookup failing and a client
\* disconnecting are not owed.
Fairness ==
    /\ WF_vars(UpdateStatusRunning) /\ WF_vars(SvcLoad) /\ WF_vars(SvcMarkRunning)
    /\ WF_vars(SvcRelay) /\ WF_vars(SvcCatch) /\ WF_vars(SvcFinish)
    /\ WF_vars(CasReturn) /\ WF_vars(CancelCommit)
    /\ WF_vars(EngineStart) /\ WF_vars(EngineSetup) /\ WF_vars(EngineChunk)
    /\ WF_vars(EngineComplete) /\ WF_vars(EngineReturn)
    /\ WF_vars(EngineYieldError) /\ WF_vars(EngineRaiseWrapped)
    /\ WF_vars(StreamMarkRunning) /\ WF_vars(StreamRun)

SpecLive == Init /\ [][NextStream]_vars /\ Fairness

InitGateway ==
    /\ ExecInit
    /\ max_steps = 1
    /\ has_tools = FALSE
    /\ GatewayInit
    /\ LibraryInit
    /\ RunIdle
    /\ TransportInit
    /\ tr_kind = "stdio"
    /\ user_credentials = NoCredentials
    /\ CallToolIdle
    /\ PipeInit
    /\ InjectorIdle
    /\ ToolsIdle

NextGateway ==
    \/ Register
    \/ Unregister
    \/ Enable
    \/ Disable
    \/ ConnEnter
    \/ StdioSpawn
    \/ ProcExits
    \/ StdioInitialize
    \/ StdioListTools
    \/ Body
    \/ CleanupTerminate
    \/ CleanupWait
    \/ HttpOpen
    \/ HttpSession
    \/ ConnExit

SpecGateway == InitGateway /\ [][NextGateway]_vars

InitTransport ==
    /\ ExecInit
    /\ max_steps = 1
    /\ has_tools = FALSE
    /\ GatewayInit
    /\ LibraryInit
    /\ RunIdle
    /\ TransportInit
    /\ tr_kind \in TransportKinds
    /\ user_credentials = NoCredentials
    /\ CallToolIdle
    /\ PipeInit
    /\ InjectorIdle
    /\ ToolsIdle

NextTransport ==
    \/ TrConnect
    \/ TrProcExits
    \/ TrDisconnect
    \/ TrWaitReturns

SpecTransport == InitTransport /\ [][NextTransport]_vars

\* one connection(server_id, user_credentials) scope over the default catalog,
\* to which a server over SSE may have been added
InitConnection ==
    /\ ExecInit
    /\ max_steps = 1
    /\ has_tools = FALSE
    /\ GatewayInit
    /\ LibraryInit
    /\ RunIdle
    /\ user_credentials \in CredentialInputs
    /\ TransportInit
    /\ tr_kind = "stdio"
    /\ CallToolIdle
    /\ PipeInit
    /\ InjectorIdle
    /\ ToolsIdle

NextConnection ==
    \/ Register
    \/ ConnEnter
    \/ StdioSpawn
    \/ ProcExits
    \/ StdioInitialize
    \/ StdioListTools
    \/ Body
    \/ CleanupTerminate
    \/ CleanupWait
    \/ HttpOpen
    \/ HttpSession
    \/ ConnExit

SpecConnection == InitConnection /\ [][NextConnection]_vars

\* one call_tool call: on the connection of a registered server or on a
\* connection that carries neither session nor subprocess
InitCallTool ==
    /\ ExecInit
    /\ max_steps = 1
    /\ has_tools = FALSE
    /\ GatewayInit
    /\ LibraryInit
    /\ RunIdle
    /\ user_credentials = NoCredentials
    /\ TransportInit
    /\ tr_kind = "stdio"
    /\ ct_server \in {sid \in ServerIds : DefaultServers[sid] # NoConfig}
    /\ ct_kind \in {ConnectionKind(DefaultServers[ct_server]), "neither"}
    /\ ct_tool \in ToolNames
    /\ ct_outcome \in CallOutcomes(ct_kind)
    /\ ct_pc = "ready"
    /\ ct_raised = NoExc
    /\ PipeInit
    /\ InjectorIdle
    /\ ToolsIdle

NextCallTool == CallTool

SpecCallTool == InitCallTool /\ [][NextCallTool]_vars

\* callers of _send_request on one subprocess connection, and the subprocess
InitPipe ==
    /\ ExecInit
    /\ max_steps = 1
    /\ has_tools = FALSE
    /\ GatewayInit
    /\ LibraryInit
    /\ RunIdle
    /\ user_credentials = NoCredentials
    /\ TransportInit
    /\ tr_kind = "stdio"
    /\ CallToolIdle
    /\ PipeInit
    /\ InjectorIdle
    /\ ToolsIdle

NextPipe ==
    \/ \E c \in Callers : SendWrite(c)
    \/ \E c \in Callers : SendRead(c)
    \/ \E c \in Callers : SendTimeout(c)
    \/ ServerResponds
    \/ ServerWritesUnsolicited
    \/ ServerCloses

SpecPipe == InitPipe /\ [][NextPipe]_vars

\* one prepare call, for every server credential_type and every credential
InitInjector ==
    /\ ExecInit
    /\ max_steps = 1
    /\ has_tools = FALSE
    /\ GatewayInit
    /\ LibraryInit
    /\ RunIdle
    /\ user_credentials = NoCredentials
    /\ TransportInit
    /\ tr_kind = "stdio"
    /\ CallToolIdle
    /\ PipeInit
    /\ inj_config_type \in {"none"} \cup CredentialTypes
    /\ inj_credential \in
         {NoCredential} \cup
         {CredentialDecrypted(t, d) : t \in CredentialTypes,
                                      d \in [SecretFields -> FieldValues]}
    /\ inj_pc = "ready"
    /\ inj_ret = InjectedCredentials({}, {}, {})
    /\ ToolsIdle

NextInjector == PrepareCall

SpecInjector == InitInjector /\ [][NextInjector]_vars

\* the catalog under register / unregister / enable / disable, queried with
\* get and list_available
InitRegistry ==
    /\ ExecInit
    /\ max_steps = 1
    /\ has_tools = FALSE
    /\ GatewayInit
    /\ LibraryInit
    /\ RunIdle
    /\ user_credentials = NoCredentials
    /\ TransportInit
    /\ tr_kind = "stdio"
    /\ CallToolIdle
    /\ PipeInit
    /\ InjectorIdle
    /\ ToolsIdle

NextRegistry ==
    \/ Register
    \/ Unregister
    \/ Enable
    \/ Disable
    \/ GetCall
    \/ ListAvailableCall
    \/ GetServersAvailableToUserCall

SpecRegistry == InitRegistry /\ [][NextRegistry]_vars

\* building the tools of a workflow of up to MaxNodes node instances, and
\* calling them
InitTools ==
    /\ ExecInit
    /\ max_steps = 1
    /\ has_tools = FALSE
    /\ GatewayInit
    /\ LibraryInit
    /\ RunIdle
    /\ user_credentials = NoCredentials
    /\ TransportInit
    /\ tr_kind = "stdio"
    /\ CallToolIdle
    /\ PipeInit
    /\ InjectorIdle
    /\ tl_nodes \in UNION {[1..n -> WorkflowNodeTypes] : n \in 0..MaxNodes}
    /\ tl_credentials \in SUBSET ExecutionCredentialTypes
    /\ tl_pc = "start"
    /\ tl_tools = <<>>
    /\ tl_build_raised = "none"
    /\ tl_call = NotCalled

NextTools ==
    \/ BuildTools
    \/ ToolCall

SpecTools == InitTools /\ [][NextTools]_vars

\* register and unregister calls on one NodeLibrary, starting empty
InitLibrary ==
    /\ ExecInit
    /\ max_steps = 1
    /\ has_tools = FALSE
    /\ GatewayInit
    /\ LibraryInit
    /\ RunIdle
    /\ user_credentials = NoCredentials
    /\ TransportInit
    /\ tr_kind = "stdio"
    /\ CallToolIdle
    /\ PipeInit
    /\ InjectorIdle
    /\ ToolsIdle

NextLibrary ==
    \/ LibraryRegister
    \/ LibraryUnregister

SpecLibrary == InitLibrary /\ [][NextLibrary]_vars

\* ------------------------------------------------------------------ claims
IsTerminalEvent(e) == e.type \in {"complete", "error"}
IsStepEvent(e) == e.type = "step"
NumTerminal(events) == Len(SelectSeq(events, IsTerminalEvent))
StepEvents(events) == SelectSeq(events, IsStepEvent)
Last(events) == events[Len(events)]
AllToolCalls(ts) == \A i \in 1..Len(ts) : ts[i] = "tool_calls"

\* C1: for one execution, the events yielded by WorkflowExecutionEngine.execute
\* and the events yielded by ExecutionService.execute each contain at most one
\* event of type complete or error.
C1_AtMostOneTerminalEvent ==
    /\ NumTerminal(engine_events) <= 1
    /\ NumTerminal(svc_events) <= 1

\* C2: when WorkflowExecutionEngine.execute has raised ExecutionError the last
\* event it yielded is an error event, and when it has returned without raising
\* the last event it yielded is a complete event.
C2_TerminalEventLast ==
    /\ engine_pc = "raised" =>
         Len(engine_events) > 0 /\ Last(engine_events).type = "error"
    /\ engine_pc = "done" =>
         Len(engine_events) > 0 /\ Last(engine_events).type = "complete"

\* C3: with max_steps = N and a model that requests a tool call on every turn,
\* a run that ends with MAX_STEPS_EXCEEDED has yielded exactly N step events
\* followed by one error event, and no run yields more than N step events.
C3_StepBound ==
    /\ Len(StepEvents(engine_events)) <= max_steps
    /\ (engine_pc = "raised" /\ engine_exc = "MAX_STEPS_EXCEEDED"
          /\ has_tools /\ AllToolCalls(turns)) =>
         /\ Len(StepEvents(engine_events)) = max_steps
         /\ Last(engine_events).type = "error"
         /\ NumTerminal(engine_events) = 1

\* C4: the step_number values of successive step events are strictly
\* increasing, and the first step event carries step_number 1.
C4_StepNumbers ==
    LET steps == StepEvents(engine_events)
    IN /\ Len(steps) > 0 => steps[1].step_number = 1
       /\ \A i, j \in 1..Len(steps) :
            i < j => steps[i].step_number < steps[j].step_number

\* C5: when the first model turn requests no tool calls and the run has ended,
\* the events are exactly start then complete, and the complete event carries
\* steps_completed = 0.
C5_NoToolPath ==
    (engine_pc = "done" /\ turns = <<"final">>) =>
        /\ Len(engine_events) = 2
        /\ engine_events[1].type = "start"
        /\ engine_events[2].type = "complete"
        /\ engine_events[2].steps_completed = 0

\* C6: the stored status of an execution only moves forward along
\* pending -> running -> {completed, failed, cancelled, timeout} (a pending
\* record may also go straight to a terminal status), and a terminal status
\* never changes again.
C6_StatusLifecycle ==
    [][ /\ status \in TerminalStatuses => status' = status
        /\ status' # status =>
             \/ status = "none" /\ status' = "pending"
             \/ status = "pending" /\ status' \in {"running"} \cup TerminalStatuses
             \/ status = "running" /\ status' \in TerminalStatuses ]_vars

\* signals and waits, in the order a log records them
ShutdownOps(log) ==
    LET IsShutdownOp(x) == x \in {"terminate", "wait_for_5", "wait", "kill"}
    IN SelectSeq(log, IsShutdownOp)

\* terminate comes first, every wait is the bounded one and follows a
\* terminate, and a kill follows a bounded wait that followed a terminate
GracefulOrder(ops) ==
    \A i \in 1..Len(ops) :
        /\ ops[i] # "wait"
        /\ ops[i] = "wait_for_5" => i > 1 /\ ops[i-1] = "terminate"
        /\ ops[i] = "kill" => i > 2 /\ ops[i-1] = "wait_for_5" /\ ops[i-2] = "terminate"

\* C7: once a connection(...) scope over a stdio server that spawned its
\* subprocess is over (body completed, body raised, or initialize / tool
\* discovery failed), the cleanup path has run exactly once and the subprocess
\* is not running: it exited, or it was killed after terminate and the bounded
\* wait.  The cleanup path never runs twice.
C7_ScopedCleanup ==
    /\ cleanup_runs <= 1
    /\ (conn_pc \in {"propagate", "ended"} /\ proc # "none") =>
         /\ cleanup_runs = 1
         /\ proc \in {"exited", "killed"}
         /\ proc = "killed" =>
              /\ Len(proc_log) >= 3
              /\ SubSeq(proc_log, Len(proc_log) - 2, Len(proc_log))
                   = <<"terminate", "wait_for_5", "kill">>

\* C7 witness: the body raised inside the scope, the process ignored the
\* terminate signal and was killed, and the scope is over
C7_Witness ==
    /\ conn_pc = "ended"
    /\ pending_exc = "ValueError"
    /\ proc = "killed"
    /\ cleanup_runs = 1

\* C8: disconnecting a local process - in the gateway's cleanup and in
\* StdioTransport.disconnect - sends terminate first, then waits a bounded
\* time, then kills exactly when the wait timed out; it never waits without a
\* bound and never kills before terminating.
C8_TerminateWaitKill ==
    /\ GracefulOrder(ShutdownOps(proc_log))
    /\ GracefulOrder(ShutdownOps(tr_log))

\* the connect / disconnect calls of a transport log
TransportCalls(log) ==
    LET IsCall(x) == x \in {"connect", "disconnect"}
    IN SelectSeq(log, IsCall)

\* C9: for each transport, a disconnect() that follows a disconnect(), and a
\* disconnect() with no connect() before it, raises nothing and leaves
\* is_connected false.
C9_IdempotentDisconnect ==
    LET calls == TransportCalls(tr_log)
        n == Len(calls)
    IN (/\ tr_pc = "idle"
        /\ n >= 1
        /\ calls[n] = "disconnect"
        /\ (n = 1 \/ calls[n-1] = "disconnect")) =>
         /\ tr_raised = "none"
         /\ ~IsConnected(tr_kind, tr_connected, tr_process, tr_client)

\* C10: a connection(server_id) whose server_id is not in the catalog, or is
\* registered but disabled, fails with MCPServerNotFoundError without spawning
\* a process or opening a client.
C10_NotFoundWhenAbsentOrDisabled ==
    (conn_pc # "idle" /\ (conn_cfg = NoConfig \/ ~conn_cfg.enabled)) =>
        /\ conn_pc = "ended"
        /\ conn_raised = "MCPServerNotFoundError"
        /\ proc = "none"
        /\ client = "none"

\* C11: every failure between entering MCPGateway.connection with a resolved
\* server and yielding the connection (spawn failure, an error response to
\* initialize or tools/list, a read timeout, the server closing its output,
\* malformed JSON, a client that cannot be opened) reaches the caller as
\* MCPConnectionError and as no other error type.
C11_FailuresAreConnectionErrors ==
    (conn_pc = "ended" /\ conn_cfg # NoConfig /\ ~conn_yielded) =>
        conn_raised = "MCPConnectionError"

\* text x is one of the parts of a message
Mentions(message, x) == \E i \in 1..Len(message) : message[i] = x

\* C12: every exception raised by MCPGateway.call_tool is an MCPToolError, and
\* its message identifies both the connection's server id and the tool name.
C12_ToolErrorNamesServerAndTool ==
    (ct_pc = "returned" /\ ct_raised.type # "none") =>
        /\ ct_raised.type = "MCPToolError"
        /\ Mentions(ct_raised.message, ct_server)
        /\ Mentions(ct_raised.message, ct_tool)

\* C13: on a subprocess connection, the result a request returns is taken from
\* the response line whose id equals the request's id; a line answering an
\* earlier request, or a line the server wrote on its own, is never returned as
\* the result of a later request.
C13_ResponseMatchesRequest ==
    \A c \in Callers :
        rq_ret[c].kind = "result" => rq_ret[c].response = rq_ret[c].request

\* prepare produced no auth material
NoAuthMaterial(ret) == ret.headers = {} /\ ret.params = {} /\ ret.env = {}

\* C14: prepare returns empty headers, params and env whenever the server's
\* credential_type is None, whatever credential is passed; and whenever the
\* credential_type is set and the credential is None it raises
\* CredentialInjectionError and returns no auth material.
C14_NoneCases ==
    inj_pc = "returned" =>
        /\ inj_config_type = "none" =>
             inj_ret.raised = "none" /\ NoAuthMaterial(inj_ret)
        /\ (inj_config_type # "none" /\ inj_credential = NoCredential) =>
             inj_ret.raised = "CredentialInjectionError" /\ NoAuthMaterial(inj_ret)

\* C14 witness: a server without credential_type was given a slack_oauth
\* credential holding its secret, and prepare returned nothing to inject
C14_Witness ==
    /\ inj_pc = "returned"
    /\ inj_config_type = "none"
    /\ inj_credential.credential_type = "slack_oauth"
    /\ inj_credential.data["access_token"] = "s3cret"
    /\ inj_ret.raised = "none"
    /\ NoAuthMaterial(inj_ret)

\* C15: for a server that requires a credential and a credential whose type is
\* in the strategy table and whose secret field is present and non-empty,
\* prepare places the secret in exactly one place fixed by the type's method -
\* bearer: headers = {Authorization: "Bearer " + secret}; header: headers =
\* {header_name: secret}; query: params = {param_name: secret}; env: env =
\* {env_name: secret} - and leaves the other two maps empty.
C15_SecretInOnePlace ==
    (/\ inj_pc = "returned"
     /\ inj_config_type # "none"
     /\ inj_credential # NoCredential
     /\ inj_credential.credential_type \in StrategyTypes
     /\ inj_credential.data[CREDENTIAL_STRATEGIES[inj_credential.credential_type].token_field]
          \notin {Absent, ""}) =>
        LET strategy == CREDENTIAL_STRATEGIES[inj_credential.credential_type]
            secret == inj_credential.data[strategy.token_field]
        IN /\ inj_ret.raised = "none"
           /\ strategy.method = "bearer" =>
                /\ inj_ret.headers = {<<"Authorization", "Bearer " \o secret>>}
                /\ inj_ret.params = {}
                /\ inj_ret.env = {}
           /\ strategy.method = "header" =>
                /\ inj_ret.headers = {<<strategy.name, secret>>}
                /\ inj_ret.params = {}
                /\ inj_ret.env = {}
           /\ strategy.method = "query" =>
                /\ inj_ret.headers = {}
                /\ inj_ret.params = {<<strategy.name, secret>>}
                /\ inj_ret.env = {}
           /\ strategy.method = "env" =>
                /\ inj_ret.headers = {}
                /\ inj_ret.params = {}
                /\ inj_ret.env = {<<strategy.name, secret>>}
           /\ strategy.method \in {"bearer", "header", "query", "env"}

\* C15 witness: a github_token credential (bearer) holding its token was
\* prepared for the server that requires it
C15_Witness ==
    /\ inj_pc = "returned"
    /\ inj_config_type = "github_token"
    /\ inj_credential.credential_type = "github_token"
    /\ inj_credential.data["token"] = "s3cret"
    /\ inj_ret.headers = {<<"Authorization", "Bearer s3cret">>}
    /\ inj_ret.params = {}
    /\ inj_ret.env = {}

\* C16: prepare(server requiring type t, credential of type u) with u # t
\* yields no headers, params or env.
C16_TypeMustMatch ==
    (/\ inj_pc = "returned"
     /\ inj_config_type # "none"
     /\ inj_credential # NoCredential
     /\ inj_credential.credential_type # inj_config_type) =>
        NoAuthMaterial(inj_ret)

\* the caller supplied no credential, or one without any secret field
LacksSecret(credentials) ==
    ~credentials.given \/ credentials.keys \cap SecretFields = {}

\* C17: when the resolved server requires a credential and the caller of
\* connection supplied none, or one lacking the secret field, the call fails
\* with a credential error before any connection attempt: no subprocess is
\* spawned and no HTTP/SSE client is opened.
C17_CredentialErrorBeforeConnecting ==
    (/\ conn_pc # "idle"
     /\ conn_cfg # NoConfig
     /\ conn_cfg.credential_type # "none"
     /\ LacksSecret(user_credentials)) =>
        /\ proc = "none"
        /\ client = "none"
        /\ conn_pc = "ended" => conn_raised = "CredentialInjectionError"

\* C18: after any sequence of register, unregister, enable and disable,
\* get(id) returns a config if and only if id is currently registered and
\* enabled, and then the registered config; for a disabled id it returns the
\* same nothing as for an id that is not registered.
C18_GetIffRegisteredAndEnabled ==
    reg_call.op = "get" =>
        LET registered == registry[reg_call.id] # NoConfig
        IN /\ reg_call.config # NoConfig <=>
                (registered /\ registry[reg_call.id].enabled)
           /\ reg_call.config # NoConfig => reg_call.config = registry[reg_call.id]

\* C18 witness: slack, registered by default and disabled since, was looked up
\* and get returned nothing
C18_Witness ==
    /\ reg_call.op = "get"
    /\ reg_call.id = "slack"
    /\ registry["slack"] # NoConfig
    /\ ~registry["slack"].enabled
    /\ reg_call.config = NoConfig

\* C19: for every catalog state and every set C of credential types,
\* list_available(C) is exactly the set of enabled servers whose
\* credential_type is None or a member of C.
C19_ListAvailableExact ==
    reg_call.op = "list_available" =>
        reg_call.servers =
            {registry[sid] : sid \in {s \in ServerIds :
                /\ registry[s] # NoConfig
                /\ registry[s].enabled
                /\ \/ registry[s].credential_type = "none"
                   \/ registry[s].credential_type \in reg_call.credentials}}

\* C19 witness: list_available(["slack_oauth"]) included slack and the
\* credential-free filesystem server, and excluded github (another type) and a
\* disabled credential-free server
C19_Witness ==
    /\ reg_call.op = "list_available"
    /\ reg_call.credentials = {"slack_oauth"}
    /\ registry["slack"] \in reg_call.servers
    /\ registry["filesystem"] \in reg_call.servers
    /\ registry["github"] # NoConfig
    /\ registry["github"].enabled
    /\ registry["github"] \notin reg_call.servers
    /\ registry["custom_sse"] # NoConfig
    /\ ~registry["custom_sse"].enabled
    /\ registry["custom_sse"] \notin reg_call.servers

\* C20: building the tools never fails because a credential is missing; a
\* tool call fails with MISSING_CREDENTIAL only when the node requires a
\* credential that is not in the execution's credential map, and a call (with
\* valid input) of a node whose required credential is not in the map fails
\* with NodeExecutionError, error_code MISSING_CREDENTIAL.
C20_MissingCredentialFailsTheCall ==
    /\ tl_pc = "built" => tl_build_raised = "none"
    /\ tl_call.error_code = "MISSING_CREDENTIAL" =>
         /\ NodeCredentialType(tl_call.tool) # "none"
         /\ NodeCredentialType(tl_call.tool) \notin DOMAIN CredMap(tl_credentials)
    /\ (/\ tl_call.tool # "none"
        /\ tl_call.raised # "NodeValidationError"
        /\ NodeCredentialType(tl_call.tool) # "none"
        /\ NodeCredentialType(tl_call.tool) \notin DOMAIN CredMap(tl_credentials)) =>
         /\ tl_call.raised = "NodeExecutionError"
         /\ tl_call.error_code = "MISSING_CREDENTIAL"

\* C21: _build_tools_from_nodes does not raise and returns exactly one tool
\* for each node instance whose node_type resolves in the node registry, in
\* the order of the node instances; instances of unknown type are skipped.
ResolvingPositions(nodes) == {i \in 1..Len(nodes) : nodes[i] \in BuiltinNodes}

C29_PresentCredentialIsFound ==
    (/\ tl_call.tool # "none"
     /\ NodeCredentialType(tl_call.tool) \in tl_credentials
     /\ NodeCredentialKey(tl_call.tool) \in CredentialFields(NodeCredentialType(tl_call.tool))) =>
      tl_call.error_code # "MISSING_CREDENTIAL"

\* C30: an exception raised by the caller's code inside the
\* `async with gateway.connection(...)` block leaves the block, after cleanup,
\* as the same exception; it is not replaced by MCPConnectionError.
C30_BodyExceptionUnchanged ==
    (conn_pc = "ended" /\ conn_yielded /\ pending_exc # "none") =>
        conn_raised = pending_exc

\* C28: for every catalog state and every credential set, the gateway's
\* get_servers_available_to_user returns the same servers as the registry's
\* list_available; none of the servers it returns is disabled.
C28_GatewayAgreesWithRegistry ==
    reg_call.op = "get_servers_available_to_user" =>
      /\ reg_call.servers = ListAvailable(registry, reg_call.credentials)
      /\ \A server \in reg_call.servers : server.enabled

\* C25: _send_request calls on one connection are serialized.  At most one
\* caller is between writing its request and the return of its readline, and
\* it is the holder of the lock; while a caller is in that interval no request
\* is written and no line is taken from stdout; the ids written to stdin are
\* strictly increasing.
Reading == {c \in Callers : rq_pc[c] = "reading"}

C25_Serialized ==
    /\ [](/\ Cardinality(Reading) <= 1
          /\ \A c \in Callers : c \in Reading <=> lock = c
          /\ \A i, j \in 1..Len(stdin) : i < j => stdin[i] < stdin[j])
    /\ [][\A c \in Callers :
            (rq_pc[c] = "reading" /\ rq_pc'[c] = "reading") =>
               /\ stdin' = stdin
               /\ Len(stdout') >= Len(stdout)]_vars

\* the second caller has written its request after the first one's call
\* returned
C25_Witness ==
    /\ stdin = <<1, 2>>
    /\ rq_id["a"] = 1
    /\ rq_ret["a"].kind = "result"
    /\ rq_id["b"] = 2
    /\ rq_pc["b"] = "reading"

\* C22: once cancel has committed the cancelled status of an execution, the
\* engine loop of that execution starts no further model turn and no further
\* tool call, and yields no complete event.
C22_CancelInterruptsLoop ==
    [][status = "cancelled" =>
         /\ turns' = turns
         /\ ~(g = "tools" /\ g' = "tools_values")
         /\ \/ engine_events' = engine_events
            \/ Last(engine_events').type # "complete"]_vars

\* C24: after any sequence of register and unregister calls, rejected
\* duplicate registrations included, each of the three index queries returns
\* every currently registered node that has the queried category, MCP server
\* id or credential type, once each, and nothing else.
Registered == {lib_nodes[n] : n \in NodeNames} \ {NoNode}

Exactly(list, nodes) ==
    /\ \A i, j \in 1..Len(list) : i # j => list[i] # list[j]
    /\ {list[i] : i \in 1..Len(list)} = nodes

C24_IndexesExact ==
    /\ \A c \in NodeCategory :
         Exactly(GetNodesByCategory(lib_nodes, lib_by_category, c),
                 {n \in Registered : n.category = c})
    /\ \A sv \in NodeServerIds :
         Exactly(GetNodesForMcpServer(lib_nodes, lib_by_mcp_server, sv),
                 {n \in Registered : n.mcp_server_id = sv})
    /\ \A t \in NodeCredentialTypes :
         Exactly(GetNodesByCredential(lib_nodes, lib_by_credential, t),
                 {n \in Registered : n.credential_type = t})

\* a second definition named calculator has just been rejected while
\* slack_send_message is registered next to the first one
C24_Witness ==
    /\ lib_call = LibraryCall("register", "calculator", "NodeLibraryError")
    /\ lib_nodes["calculator"] = NodeDefinition("calculator", "tool", "none", "none")
    /\ lib_nodes["slack_send_message"] =
         NodeDefinition("slack_send_message", "mcp", "slack_oauth", "slack")

\* C23: the overall timeout is enforced.  Once the timeout has elapsed during
\* a run the engine takes no further step, the run does not end with a
\* complete event, the exception the engine raises carries code TIMEOUT, and
\* the record of a run that was not cancelled ends with status timeout.
C23_TimeoutEnforced ==
    /\ [](overdue =>
            /\ engine_pc \notin {"complete_yielded", "done"}
            /\ engine_pc = "raised" => engine_exc = "TIMEOUT"
            /\ (svc_pc = "done" /\ cancels = 0) => status = "timeout")
    /\ [][overdue => step_count' = step_count]_vars

\* C26: the engine runs one execution record at most once: never have both
\* the execute call of create_and_start and a second execute call for the
\* same execution started an engine run.
C26_AtMostOneEngineRun ==
    ~(engine_pc # "init" /\ st_pc \in {"engine", "done", "closed"})

\* C27: an execution whose record says running eventually has a terminal
\* status.
C27_RunningReachesTerminal ==
    (status = "running") ~> (status \in TerminalStatuses)

====
